---- MODULE Spec2Model ----
(***************************************************************************)
(* Model of the atproto scam detector: the windowed duplicate aggregator   *)
(* (processBufferedMessages, bufferAndProcessSpam), the in-memory ignore   *)
(* tier, and the classification dispatcher with the durable ignore tier.   *)
(***************************************************************************)
EXTENDS Integers, Sequences, FiniteSets, TLC

\* ------------------------------------------------------------------------
\* Bounds of the model
\* ------------------------------------------------------------------------
\* events held in memory: the buffer plus the batch of the latest run
MaxBuffer == 4
\* events held in memory when the label calls are required to settle
MaxFairBuffer == 3
\* rejected label calls per aggregator run
MaxFailures == 1
\* clock ticks taken in one behaviour
MaxTicks == 1
\* highest cumulative score at which an account-level label may still reject
MaxScore == 8
\* events handed to processScamMessage in one behaviour
MaxEvents == 2

\* ------------------------------------------------------------------------
\* Values
\* ------------------------------------------------------------------------
NULL == "null"

\* 24 * 60 * 60 * 1000
DayMs == 86400000

\* A time in milliseconds is held as whole days and milliseconds of the day:
\* the number days * DayMs + ms.
Time(days, ms) == [days |-> days, ms |-> ms]

\* a + b
Plus(a, b) ==
  LET s == a.ms + b.ms
  IN [days |-> a.days + b.days + (s \div DayMs), ms |-> s % DayMs]

\* t + periodDays * 24 * 60 * 60 * 1000
PlusDays(t, periodDays) == Plus(t, Time(periodDays, 0))

\* a > b
After(a, b) == a.days > b.days \/ (a.days = b.days /\ a.ms > b.ms)

DIDS == {"did:a", "did:b", "did:c"}

\* texts are sequences of characters
FiveWords == <<"a", " ", "b", " ", "c", " ", "d", " ", "e">>
OtherFive == <<"v", " ", "w", " ", "x", " ", "y", " ", "z">>
BuyNow == <<"b", "u", "y", " ", "n", "o", "w">>

\* ------------------------------------------------------------------------
\* Map helpers (JavaScript Map as a function on its key set)
\* ------------------------------------------------------------------------
EmptyMap == <<>>
MapHas(map, k) == k \in DOMAIN map
MapSet(map, k, v) == [x \in (DOMAIN map) \cup {k} |-> IF x = k THEN v ELSE map[x]]
MapDelete(map, k) == [x \in (DOMAIN map) \ {k} |-> map[x]]

\* ------------------------------------------------------------------------
\* String helpers
\* ------------------------------------------------------------------------
IsWs(c) == c \in {" ", "\t", "\n"}

RECURSIVE TrimStart(_)
TrimStart(s) == IF s # <<>> /\ IsWs(Head(s)) THEN TrimStart(Tail(s)) ELSE s

RECURSIVE TrimEnd(_)
TrimEnd(s) ==
  IF s # <<>> /\ IsWs(s[Len(s)]) THEN TrimEnd(SubSeq(s, 1, Len(s) - 1)) ELSE s

\* the text is split as it is
Trim_Skipped(s) == s

\* String.prototype.trim
Trim(s) == TrimEnd(TrimStart(s))

\* s.split(/\s+/).length: one more than the number of maximal whitespace runs
SplitLen(s) ==
  1 + Cardinality({i \in 1..Len(s) : IsWs(s[i]) /\ (i = 1 \/ ~IsWs(s[i - 1]))})

\* ------------------------------------------------------------------------
\* State
\* ------------------------------------------------------------------------
VARIABLES
  env,                    \* process.env: the three threshold settings
  upstream,               \* the posts the event source may deliver
  now,                    \* Date.now()
  ticks,                  \* clock ticks taken so far
  messageBuffer,          \* main: events waiting for the next timer tick
  spamTimer,              \* main: the interval timer handle (set or not)
  intervals,              \* the interval timers that setInterval has started
  isProcessing,           \* spamDetection: re-entrancy flag
  postTextMap,            \* spamDetection: text -> did -> AccountData
  cumulativeSpamScores,   \* spamDetection: did -> score
  inMemoryIgnoreList,     \* memDatabase: did -> expiration time
  run,                    \* the suspended processBufferedMessages call
  trace,                  \* bot.label calls and console records of the run
  dropped,                \* a non-empty batch was discarded since the run began
  handleIgnore,           \* ignoreWatcher: the static ignore list
  allScamTerms,           \* scamDetection: the term list of the last rebuild
  scamRegex,              \* scamDetection: the compiled alternatives
  updating,               \* updateScamTerms calls suspended in findTrendingCoins
  db,                     \* database: ignore_handles, handle -> expiration_time
  tasks,                  \* the processScamMessage calls in flight
  dispatched              \* events handed to processScamMessage so far

aggVars == <<env, upstream, now, ticks, messageBuffer, spamTimer, intervals, isProcessing, postTextMap,
             cumulativeSpamScores, inMemoryIgnoreList, run, trace, dropped>>

\* what the aggregator owns apart from the clock
aggState == <<env, upstream, messageBuffer, spamTimer, intervals, isProcessing, postTextMap,
              cumulativeSpamScores, inMemoryIgnoreList, run, trace, dropped>>

dispVars == <<handleIgnore, allScamTerms, scamRegex, updating, db, tasks, dispatched>>

\* ------------------------------------------------------------------------
\* Thresholds: Number(process.env.X || default)
\* ------------------------------------------------------------------------
DefaultSameAccount == 3
DefaultMultipleAccount == 3
DefaultScamSpam == 5

\* an environment variable that is not set
UNSET == -1

EnvNumber(v, dflt) == IF v = UNSET THEN dflt ELSE v

SAME_ACCOUNT_SPAM_THRESHOLD ==
  EnvNumber(env.SAME_ACCOUNT_SPAM_THRESHOLD, DefaultSameAccount)
MULTIPLE_ACCOUNT_SPAM_THRESHOLD ==
  EnvNumber(env.MULTIPLE_ACCOUNT_SPAM_THRESHOLD, DefaultMultipleAccount)
SCAM_SPAM_THRESHOLD == EnvNumber(env.SCAM_SPAM_THRESHOLD, DefaultScamSpam)

EnvUnset ==
  [SAME_ACCOUNT_SPAM_THRESHOLD |-> UNSET,
   MULTIPLE_ACCOUNT_SPAM_THRESHOLD |-> UNSET,
   SCAM_SPAM_THRESHOLD |-> UNSET]

\* ------------------------------------------------------------------------
\* memDatabase: the in-memory ignore tier
\* ------------------------------------------------------------------------
\* the entry lapses at its expiration time, not after it
Expired_AtExpiry(t, expirationTime) == ~After(expirationTime, t)

\* Date.now() > expirationTime
Expired(t, expirationTime) == After(t, expirationTime)

\* a row of the durable tier suppresses the aggregator too
IsHandleInMemoryIgnored_OrDurable(list, handle, t) ==
  \/ MapHas(list, handle) /\ ~Expired(t, list[handle])
  \/ \E h \in DOMAIN db : \E i \in DOMAIN tasks :
       tasks[i].did = handle /\ tasks[i].handle = h

\* isHandleInMemoryIgnored: the boolean it returns
IsHandleInMemoryIgnored(list, handle, t) ==
  MapHas(list, handle) /\ ~Expired(t, list[handle])

\* every lookup sweeps the expired entries of all subjects
MemIgnoreAfterLookup_Sweep(list, handle, t) ==
  [d \in {x \in DOMAIN list : ~Expired(t, list[x])} |-> list[d]]

\* isHandleInMemoryIgnored: the list it leaves behind (lazy eviction)
MemIgnoreAfterLookup(list, handle, t) ==
  IF MapHas(list, handle) /\ Expired(t, list[handle])
  THEN MapDelete(list, handle)
  ELSE list

\* addHandleToMemoryIgnoreList
AddHandleToMemoryIgnoreList(list, did, periodDays, t) ==
  MapSet(list, did, PlusDays(t, periodDays))

\* ------------------------------------------------------------------------
\* processBufferedMessages, pass 1: build postTextMap
\* ------------------------------------------------------------------------
\* postTextMap is a sequence of groups in insertion order; a group's didMap
\* is a sequence of account entries in insertion order.
TextIndex(ptm, text) ==
  IF \E i \in 1..Len(ptm) : ptm[i].text = text
  THEN CHOOSE i \in 1..Len(ptm) : ptm[i].text = text
  ELSE 0

DidIndex(didMap, did) ==
  IF \E i \in 1..Len(didMap) : didMap[i].did = did
  THEN CHOOSE i \in 1..Len(didMap) : didMap[i].did = did
  ELSE 0

\* five words are filtered out too
FewerThanFiveWords_UpToFive(text) == SplitLen(Trim(text)) <= 5

\* text.trim().split(/\s+/).length < 5
FewerThanFiveWords(text) == SplitLen(Trim(text)) < 5

\* the dedup guard never finds the id
PostPathSeen_Never(accountData, rkey) == FALSE

\* accountData.postPaths.has(op.rkey)
PostPathSeen(accountData, rkey) == rkey \in accountData.postPaths

\* `at://${message.did}/${op.collection}/${op.rkey}`
Uri(did, rkey) == <<did, "app.bsky.feed.post", rkey>>

\* the value a missing property of an event reads as: the account id and
\* the post id are written as they appear in the uri template, the text as a
\* value no text of a record can be
Undefined == "undefined"
UndefinedRkey == Len(<<>>)
UndefinedText == <<Undefined>>

\* op.record.text || ""
RecordText(message) ==
  IF message.text = UndefinedText THEN <<>> ELSE message.text

AddMessage(ptm, message) ==
  IF FewerThanFiveWords(RecordText(message)) THEN ptm
  ELSE
    LET text == RecordText(message)
        ptm1 == IF TextIndex(ptm, text) = 0
                THEN Append(ptm, [text |-> text, didMap |-> <<>>])
                ELSE ptm
        g == TextIndex(ptm1, text)
        dm == ptm1[g].didMap
        dm1 == IF DidIndex(dm, message.did) = 0
               THEN Append(dm, [did |-> message.did, count |-> 0,
                                postPaths |-> {}, posts |-> <<>>])
               ELSE dm
        d == DidIndex(dm1, message.did)
        ad == dm1[d]
        ad1 == IF ~PostPathSeen(ad, message.rkey)
               THEN [ad EXCEPT !.postPaths = @ \cup {message.rkey},
                               !.count = @ + 1,
                               !.posts = Append(@, [uri |-> Uri(message.did, message.rkey),
                                                    cid |-> message.cid])]
               ELSE ad
    IN [ptm1 EXCEPT ![g].didMap = [dm1 EXCEPT ![d] = ad1]]

RECURSIVE BuildPostTextMap(_, _)
BuildPostTextMap(ptm, messages) ==
  IF messages = <<>> THEN ptm
  ELSE BuildPostTextMap(AddMessage(ptm, Head(messages)), Tail(messages))

\* ------------------------------------------------------------------------
\* processBufferedMessages, pass 2: check thresholds and label
\* ------------------------------------------------------------------------
\* The call runs synchronously from one await to the next.  A machine state
\* m bundles the locals of the call (pc, gi, di, pi, allPosts, allDids,
\* currentScore, updatedScore, failures) with the module state it writes
\* (scores, ignore, trace, isProcessing).
AwaitPcs == {"awaitMulti", "awaitSame", "awaitScam"}

IdleRun(messages) ==
  [pc |-> "idle", messages |-> messages, gi |-> 0, di |-> 0, pi |-> 0,
   allPosts |-> <<>>, allDids |-> <<>>, currentScore |-> 0,
   updatedScore |-> 0, failures |-> 0, startScores |-> EmptyMap]

\* the groups of the previous window are kept
ClearPostTextMap_Kept(ptm) == ptm

\* postTextMap.clear()
ClearPostTextMap(ptm) == <<>>

\* the guard left out
AlreadyProcessing_Off(flag) == FALSE

\* if (isProcessing) return;
AlreadyProcessing(flag) == flag

\* the comparison made exclusive
MultipleAccountsRule_Strict(size, threshold) == size > threshold

\* didMap.size >= MULTIPLE_ACCOUNT_SPAM_THRESHOLD
MultipleAccountsRule(size, threshold) == size >= threshold

\* the comparison made exclusive
SameAccountRule_Strict(count, threshold) == count > threshold

\* accountData.count >= SAME_ACCOUNT_SPAM_THRESHOLD
SameAccountRule(count, threshold) == count >= threshold

\* the score read before the update is compared
ScamRule_PreUpdate(currentScore, updatedScore, threshold) == currentScore > threshold

\* every account of a group is escalated
ScamRule_Always(currentScore, updatedScore, threshold) == TRUE

\* if (updatedScore > SCAM_SPAM_THRESHOLD)
ScamRule(currentScore, updatedScore, threshold) == updatedScore > threshold

\* cumulativeSpamScores.get(did) || 0
ScoreOf(scores, did) == IF MapHas(scores, did) THEN scores[did] ELSE 0

RECURSIVE ConcatPosts(_)
ConcatPosts(didMap) ==
  IF didMap = <<>> THEN <<>>
  ELSE Head(didMap).posts \o ConcatPosts(Tail(didMap))

LabelPost(kind, post) ==
  [op |-> "label", kind |-> kind, uri |-> post.uri, cid |-> post.cid,
   labels |-> {"spam"}]

LabelAccount(did, text, currentScore) ==
  [op |-> "label", kind |-> "scam", did |-> did, text |-> text,
   over |-> currentScore, labels |-> {"spam"}]

\* the rejection is logged and the rest of the group is given up
CatchLabelError_SkipGroup(m, subject, next) ==
  [m EXCEPT !.trace = Append(@, [op |-> "error", kind |-> m.pc, subject |-> subject]),
            !.gi = @ + 1, !.di = 0, !.pc = "group"]

\* the rejection is not caught and ends the call
CatchLabelError_Rethrow(m, subject, next) == [m EXCEPT !.pc = "thrown"]

\* catch (error) { console.error(...) }: the rejection is logged, the loop
\* goes on at pc next
CatchLabelError(m, subject, next) ==
  [m EXCEPT !.trace = Append(@, [op |-> "error", kind |-> m.pc, subject |-> subject]),
            !.pc = next]

\* the label calls of the posts are started without waiting for them
AwaitBotLabel_NotAwaited(m, call, awaitPc) ==
  CASE awaitPc = "awaitMulti" ->
         [m EXCEPT !.trace = Append(@, call), !.pi = @ + 1, !.pc = "multiPost"]
    [] awaitPc = "awaitSame" ->
         [m EXCEPT !.trace = Append(@, call), !.pi = @ + 1, !.pc = "samePost"]
    [] OTHER -> [m EXCEPT !.trace = Append(@, call), !.pc = awaitPc]

\* await bot.label({...}): the call is started and the run is suspended
\* until it settles
AwaitBotLabel(m, call, awaitPc) ==
  [m EXCEPT !.trace = Append(@, call), !.pc = awaitPc]

\* the code from the head of one statement to the head of the next
Micro(m, ptm, sameThr, multiThr, scamThr, t) ==
  CASE m.pc = "group" ->
         IF m.gi > Len(ptm) THEN [m EXCEPT !.pc = "finish"]
         ELSE IF MultipleAccountsRule(Len(ptm[m.gi].didMap), multiThr)
              THEN [m EXCEPT !.allDids = [i \in 1..Len(ptm[m.gi].didMap) |->
                                            ptm[m.gi].didMap[i].did],
                             !.allPosts = ConcatPosts(ptm[m.gi].didMap),
                             !.pi = 1, !.pc = "multiPost"]
              ELSE [m EXCEPT !.di = 1, !.pc = "account"]
    [] m.pc = "multiPost" ->
         IF m.pi <= Len(m.allPosts)
         THEN AwaitBotLabel(m, LabelPost("multi", m.allPosts[m.pi]), "awaitMulti")
         ELSE [m EXCEPT !.trace = Append(@, [op |-> "log", kind |-> "multi",
                                             text |-> ptm[m.gi].text,
                                             dids |-> m.allDids]),
                        !.allPosts = <<>>, !.allDids = <<>>, !.pi = 0,
                        !.di = 1, !.pc = "account"]
    [] m.pc = "account" ->
         IF m.di > Len(ptm[m.gi].didMap)
         THEN [m EXCEPT !.gi = @ + 1, !.di = 0, !.currentScore = 0,
                        !.updatedScore = 0, !.pc = "group"]
         ELSE LET ad == ptm[m.gi].didMap[m.di]
                  cur == ScoreOf(m.scores, ad.did)
              IN IF SameAccountRule(ad.count, sameThr)
                 THEN [m EXCEPT !.currentScore = cur,
                                !.updatedScore = cur + ad.count,
                                !.scores = MapSet(@, ad.did, cur + ad.count),
                                !.pi = 1, !.pc = "samePost"]
                 ELSE [m EXCEPT !.currentScore = cur, !.updatedScore = 0,
                                !.pc = "scamCheck"]
    [] m.pc = "samePost" ->
         LET ad == ptm[m.gi].didMap[m.di]
         IN IF m.pi <= Len(ad.posts)
            THEN AwaitBotLabel(m, LabelPost("same", ad.posts[m.pi]), "awaitSame")
            ELSE [m EXCEPT !.trace = Append(@, [op |-> "log", kind |-> "same",
                                                text |-> ptm[m.gi].text,
                                                did |-> ad.did,
                                                count |-> ad.count,
                                                score |-> m.updatedScore]),
                           !.pi = 0, !.pc = "scamCheck"]
    [] m.pc = "scamCheck" ->
         LET ad == ptm[m.gi].didMap[m.di]
         IN IF ScamRule(m.currentScore, m.updatedScore, scamThr)
            THEN AwaitBotLabel(m, LabelAccount(ad.did, ptm[m.gi].text, m.currentScore),
                               "awaitScam")
            ELSE [m EXCEPT !.di = @ + 1, !.pc = "account"]
    [] m.pc = "finish" ->
         [m EXCEPT !.isProcessing = FALSE, !.pc = "idle", !.gi = 0, !.di = 0,
                   !.pi = 0, !.currentScore = 0, !.updatedScore = 0,
                   !.failures = 0]

RECURSIVE RunSync(_, _, _, _, _, _)
RunSync(m, ptm, sameThr, multiThr, scamThr, t) ==
  IF m.pc \in AwaitPcs \cup {"idle", "thrown"} THEN m
  ELSE CHOOSE r \in {RunSync(x, ptm, sameThr, multiThr, scamThr, t) :
                       x \in {Micro(m, ptm, sameThr, multiThr, scamThr, t)}} : TRUE

\* the code that runs when the awaited bot.label call settles
Resume(m, ptm, ok, t) ==
  CASE m.pc = "awaitMulti" ->
         IF ok THEN [m EXCEPT !.pi = @ + 1, !.pc = "multiPost"]
         ELSE [CatchLabelError(m, m.allPosts[m.pi].uri, "multiPost")
                 EXCEPT !.pi = @ + 1, !.failures = @ + 1]
    [] m.pc = "awaitSame" ->
         IF ok THEN [m EXCEPT !.pi = @ + 1, !.pc = "samePost"]
         ELSE [CatchLabelError(m, ptm[m.gi].didMap[m.di].did, "samePost")
                 EXCEPT !.pi = @ + 1, !.failures = @ + 1]
    [] m.pc = "awaitScam" ->
         LET did == ptm[m.gi].didMap[m.di].did
         IN IF ok
            THEN [m EXCEPT !.ignore = AddHandleToMemoryIgnoreList(@, did, 7, t),
                           !.trace = Append(@, [op |-> "log", kind |-> "scam",
                                                did |-> did,
                                                text |-> ptm[m.gi].text,
                                                over |-> m.currentScore]),
                           !.scores = MapSet(@, did, 0),
                           !.di = @ + 1, !.pc = "account"]
            ELSE [CatchLabelError(m, did, "account")
                    EXCEPT !.di = @ + 1, !.failures = @ + 1]

Machine ==
  [pc |-> run.pc, messages |-> run.messages, gi |-> run.gi, di |-> run.di,
   pi |-> run.pi, allPosts |-> run.allPosts, allDids |-> run.allDids,
   currentScore |-> run.currentScore, updatedScore |-> run.updatedScore,
   failures |-> run.failures, startScores |-> run.startScores,
   scores |-> cumulativeSpamScores, ignore |-> inMemoryIgnoreList,
   trace |-> trace, isProcessing |-> isProcessing]

Commit(m) ==
  /\ run' = [pc |-> m.pc, messages |-> m.messages, gi |-> m.gi, di |-> m.di,
             pi |-> m.pi, allPosts |-> m.allPosts, allDids |-> m.allDids,
             currentScore |-> m.currentScore, updatedScore |-> m.updatedScore,
             failures |-> m.failures, startScores |-> m.startScores]
  /\ cumulativeSpamScores' = m.scores
  /\ inMemoryIgnoreList' = m.ignore
  /\ trace' = m.trace
  /\ isProcessing' = m.isProcessing

\* ------------------------------------------------------------------------
\* Aggregator actions
\* ------------------------------------------------------------------------
\* what the upstream delivers in a behaviour: the posts (account, text, cid)
\* it may send, and whether an account sends that text more than once in a
\* window
SoloFeed ==
  {[did |-> "did:a", text |-> FiveWords, cid |-> "cid", repeats |-> TRUE]}

CrowdFeed ==
  {[did |-> "did:a", text |-> FiveWords, cid |-> "cid", repeats |-> TRUE],
   [did |-> "did:b", text |-> FiveWords, cid |-> "cid", repeats |-> FALSE],
   [did |-> "did:c", text |-> FiveWords, cid |-> NULL, repeats |-> FALSE]}

ShortFeed ==
  {[did |-> "did:a", text |-> BuyNow, cid |-> "cid", repeats |-> FALSE],
   [did |-> "did:b", text |-> BuyNow, cid |-> "cid", repeats |-> FALSE],
   [did |-> "did:c", text |-> BuyNow, cid |-> NULL, repeats |-> TRUE]}

TwoTextFeed ==
  {[did |-> "did:a", text |-> FiveWords, cid |-> "cid", repeats |-> FALSE],
   [did |-> "did:a", text |-> OtherFive, cid |-> "cid", repeats |-> FALSE]}

\* SAME_ACCOUNT_SPAM_THRESHOLD=1 MULTIPLE_ACCOUNT_SPAM_THRESHOLD=2
\* SCAM_SPAM_THRESHOLD=0 in the environment
EnvLow ==
  [SAME_ACCOUNT_SPAM_THRESHOLD |-> 1,
   MULTIPLE_ACCOUNT_SPAM_THRESHOLD |-> 2,
   SCAM_SPAM_THRESHOLD |-> 0]

Scenarios ==
  {[env |-> EnvUnset, upstream |-> SoloFeed],
   [env |-> EnvUnset, upstream |-> CrowdFeed],
   [env |-> EnvUnset, upstream |-> ShortFeed],
   [env |-> EnvLow, upstream |-> TwoTextFeed]}

RECURSIVE MaxRkey(_)
MaxRkey(buffer) ==
  IF buffer = <<>> THEN 0
  ELSE LET r == MaxRkey(Tail(buffer))
       IN IF Head(buffer).rkey > r THEN Head(buffer).rkey ELSE r

\* every buffered event starts a timer
StartTimer_Unguarded(timer, started) == started + 1

\* if (!spamTimer) { spamTimer = setInterval(...) }: the timers started
StartTimer(timer, started) == IF ~timer THEN started + 1 ELSE started

\* bufferAndProcessSpam(message, bot): what it reads and writes
BufferIntake(message) ==
  /\ inMemoryIgnoreList' = MemIgnoreAfterLookup(inMemoryIgnoreList, message.did, now)
  /\ IF IsHandleInMemoryIgnored(inMemoryIgnoreList, message.did, now)
     THEN UNCHANGED <<messageBuffer, spamTimer, intervals>>
     ELSE /\ messageBuffer' = Append(messageBuffer, message)
          /\ spamTimer' = TRUE
          /\ intervals' = StartTimer(spamTimer, intervals)

\* bufferAndProcessSpam(message, bot)
BufferAndProcessSpam(message) ==
  /\ BufferIntake(message)
  /\ UNCHANGED <<env, upstream, now, ticks, isProcessing, postTextMap,
                 cumulativeSpamScores, run, trace, dropped>>
  /\ UNCHANGED dispVars

\* a new post arrives from the upstream while fewer than cap events are held
ReceivePostUpTo(cap) ==
  /\ Len(messageBuffer) + Len(run.messages) < cap
  /\ \E f \in upstream :
       /\ f.repeats \/ \A i \in 1..Len(messageBuffer) :
                         messageBuffer[i].did # f.did \/ messageBuffer[i].text # f.text
       /\ BufferAndProcessSpam([did |-> f.did, text |-> f.text, cid |-> f.cid,
                             rkey |-> MaxRkey(messageBuffer) + 1])

ReceivePost == ReceivePostUpTo(MaxBuffer)

\* the latest post is delivered once more
RedeliverPost ==
  /\ Len(messageBuffer) + Len(run.messages) < MaxBuffer
  /\ messageBuffer # <<>>
  /\ BufferAndProcessSpam(messageBuffer[Len(messageBuffer)])

\* the newest event stays in the buffer after the copy
SnapshotAndClear_KeepLast(buffer) ==
  [localBuffer |-> buffer,
   messageBuffer |-> IF buffer = <<>> THEN <<>> ELSE <<buffer[Len(buffer)]>>]

\* const localBuffer = [...messageBuffer]; messageBuffer.length = 0;
SnapshotAndClear(buffer) == [localBuffer |-> buffer, messageBuffer |-> <<>>]

\* the setInterval callback: snapshot, clear, processBufferedMessages
TimerFires ==
  /\ spamTimer
  /\ messageBuffer' = SnapshotAndClear(messageBuffer).messageBuffer
  /\ IF AlreadyProcessing(isProcessing)
     THEN /\ dropped' = (dropped \/ SnapshotAndClear(messageBuffer).localBuffer # <<>>)
          /\ UNCHANGED <<isProcessing, postTextMap, cumulativeSpamScores,
                         inMemoryIgnoreList, run, trace>>
     ELSE LET localBuffer == SnapshotAndClear(messageBuffer).localBuffer
              ptm == BuildPostTextMap(ClearPostTextMap(postTextMap), localBuffer)
              m0 == [Machine EXCEPT !.isProcessing = TRUE, !.trace = <<>>,
                                    !.messages = localBuffer,
                                    !.startScores = cumulativeSpamScores,
                                    !.gi = 1, !.pc = "group"]
          IN /\ postTextMap' = ptm
             /\ dropped' = FALSE
             /\ \E m1 \in {RunSync(m0, ptm, SAME_ACCOUNT_SPAM_THRESHOLD,
                                   MULTIPLE_ACCOUNT_SPAM_THRESHOLD,
                                   SCAM_SPAM_THRESHOLD, now)} : Commit(m1)
  /\ UNCHANGED <<env, upstream, now, ticks, spamTimer, intervals>>
  /\ UNCHANGED dispVars

\* the awaited bot.label call resolves (ok) or rejects
LabelSettles(ok) ==
  /\ run.pc \in AwaitPcs
  /\ ok \/ run.failures < MaxFailures
  /\ ok \/ run.pc # "awaitScam" \/ run.updatedScore <= MaxScore
  /\ \E m1 \in {RunSync(Resume(Machine, postTextMap, ok, now), postTextMap,
                        SAME_ACCOUNT_SPAM_THRESHOLD,
                        MULTIPLE_ACCOUNT_SPAM_THRESHOLD,
                        SCAM_SPAM_THRESHOLD, now)} : Commit(m1)
  /\ UNCHANGED <<env, upstream, now, ticks, messageBuffer, spamTimer, intervals, postTextMap,
                 dropped>>
  /\ UNCHANGED dispVars

LabelResolves == LabelSettles(TRUE)
LabelRejects == LabelSettles(FALSE)

\* the clock advances by seven days, or by seven days and a millisecond,
\* while an entry of the in-memory tier has not expired
Tick ==
  /\ ticks < MaxTicks
  /\ \E did \in DOMAIN inMemoryIgnoreList : ~Expired(now, inMemoryIgnoreList[did])
  /\ \E d \in {Time(7, 0), Time(7, 1)} : now' = Plus(now, d)
  /\ ticks' = ticks + 1
  /\ UNCHANGED <<env, upstream, messageBuffer, spamTimer, intervals, isProcessing,
                 postTextMap, cumulativeSpamScores, inMemoryIgnoreList, run,
                 trace, dropped>>
  /\ UNCHANGED dispVars

\* ------------------------------------------------------------------------
\* scamDetection: the fast-path matcher
\* ------------------------------------------------------------------------
UpperCase == <<"A", "B", "C", "D", "E", "F", "G", "H", "I", "J", "K", "L", "M",
               "N", "O", "P", "Q", "R", "S", "T", "U", "V", "W", "X", "Y", "Z">>
LowerCase == <<"a", "b", "c", "d", "e", "f", "g", "h", "i", "j", "k", "l", "m",
               "n", "o", "p", "q", "r", "s", "t", "u", "v", "w", "x", "y", "z">>
Digits == {"0", "1", "2", "3", "4", "5", "6", "7", "8", "9"}

LowerChar(c) ==
  IF \E i \in 1..Len(UpperCase) : UpperCase[i] = c
  THEN LowerCase[CHOOSE i \in 1..Len(UpperCase) : UpperCase[i] = c]
  ELSE c

\* String.prototype.toLowerCase
ToLowerCase(s) == [i \in 1..Len(s) |-> LowerChar(s[i])]

\* \w
IsWordChar(c) ==
  \/ \E i \in 1..Len(UpperCase) : UpperCase[i] = c \/ LowerCase[i] = c
  \/ c \in Digits
  \/ c = "_"

\* the characters of the class [.*+?^${}()|[\]\\]
SpecialChars == {".", "*", "+", "?", "^", "$", "{", "}", "(", ")", "|", "[", "]", "\\"}

\* term.replace(/[.*+?^${}()|[\]\\]/g, "\\$&")
RECURSIVE EscapeTerm(_)
EscapeTerm(term) ==
  IF term = <<>> THEN <<>>
  ELSE IF Head(term) \in SpecialChars
       THEN <<"\\", Head(term)>> \o EscapeTerm(Tail(term))
       ELSE <<Head(term)>> \o EscapeTerm(Tail(term))

\* allScamTerms.map(trim, escape).join("|")
RECURSIVE EscapedTerms(_)
EscapedTerms(terms) ==
  IF terms = <<>> THEN <<>>
  ELSE IF Len(terms) = 1 THEN EscapeTerm(Trim(terms[1]))
       ELSE EscapeTerm(Trim(terms[1])) \o <<"|">> \o EscapedTerms(Tail(terms))

\* new RegExp(`\\b(${escapedTerms})\\b`, "i"): the alternatives of the group,
\* split at each unescaped "|", an escaped character standing for itself
RECURSIVE Alternatives(_, _)
Alternatives(source, cur) ==
  IF source = <<>> THEN <<cur>>
  ELSE IF Head(source) = "\\" /\ Len(source) >= 2
       THEN Alternatives(SubSeq(source, 3, Len(source)), Append(cur, source[2]))
       ELSE IF Head(source) = "|"
            THEN <<cur>> \o Alternatives(Tail(source), <<>>)
            ELSE Alternatives(Tail(source), Append(cur, Head(source)))

\* updateScamTerms: the pattern compiled from a term list
CompileScamRegex(terms) == Alternatives(EscapedTerms(terms), <<>>)

IsWordAt(s, i) == i \in 1..Len(s) /\ IsWordChar(s[i])

\* the pattern without its \b assertions
WordBoundary_Off(s, p) == TRUE

\* \b between s[p - 1] and s[p]
WordBoundary(s, p) == IsWordAt(s, p - 1) # IsWordAt(s, p)

\* \b(alt)\b matches s at position p, letters compared without case
AltMatchesAt(s, p, alt) ==
  /\ WordBoundary(s, p)
  /\ p + Len(alt) - 1 <= Len(s)
  /\ \A k \in 1..Len(alt) : LowerChar(alt[k]) = LowerChar(s[p + k - 1])
  /\ WordBoundary(s, p + Len(alt))

\* s.match(regex): the leftmost position, and there the first alternative
RegexMatch(s, regex) ==
  LET hits == {p \in 1..(Len(s) + 1) :
                 \E a \in 1..Len(regex) : AltMatchesAt(s, p, regex[a])}
  IN IF hits = {} THEN [matched |-> FALSE, term |-> <<>>]
     ELSE LET p == CHOOSE x \in hits : \A y \in hits : x <= y
              a == CHOOSE x \in 1..Len(regex) :
                     /\ AltMatchesAt(s, p, regex[x])
                     /\ \A y \in 1..(x - 1) : ~AltMatchesAt(s, p, regex[y])
          IN [matched |-> TRUE, term |-> SubSeq(s, p, p + Len(regex[a]) - 1)]

\* findScamTerm(text): match ? match[0] : null
FindScamTerm(text, regex) == RegexMatch(ToLowerCase(text), regex)

\* the early return is never taken
NoScamTerm_Never(scamTerm) == FALSE

\* if (!scamTerm) return;
NoScamTerm(scamTerm) == ~scamTerm.matched \/ scamTerm.term = <<>>

\* ------------------------------------------------------------------------
\* evaluateWithOpenAI and the policy of handleScamClassification
\* ------------------------------------------------------------------------
Scam == <<"s", "c", "a", "m">>
ShillingCrypto ==
  <<"s", "h", "i", "l", "l", "i", "n", "g", "-", "c", "r", "y", "p", "t", "o">>
FomoInducer == <<"f", "o", "m", "o", "-", "i", "n", "d", "u", "c", "e", "r">>
Potential == <<"p", "o", "t", "e", "n", "t", "i", "a", "l">>
BotActivity == <<"b", "o", "t", "-", "a", "c", "t", "i", "v", "i", "t", "y">>
Benign == <<"b", "e", "n", "i", "g", "n">>
Maybe == <<"m", "a", "y", "b", "e">>
\* the completion "Scam" in quotes, followed by a line break
QuotedScam == <<"\"", "S", "c", "a", "m", "\"", "\n">>

\* what the completion endpoint may answer: a message content, or no answer
ClassifierResponses ==
  {[ok |-> TRUE, content |-> c] :
     c \in {QuotedScam, ShillingCrypto, FomoInducer, Potential, BotActivity,
            Benign, Maybe}}
  \cup {[ok |-> FALSE, content |-> <<>>]}

IsQuote(c) == c = "\""
NotQuote(c) == ~IsQuote(c)

\* evaluateWithOpenAI: content.trim().toLowerCase().replace(/"/g, ''), or
\* false when the request failed
EvaluateWithOpenAI(response) ==
  IF response.ok
  THEN [ok |-> TRUE,
        content |-> SelectSeq(ToLowerCase(Trim(response.content)), NotQuote)]
  ELSE [ok |-> FALSE, content |-> <<>>]

NOLABEL == "no-label"

\* bot-activity ignored for a week
SwitchClassification_BotWeek(classification) ==
  IF ~classification.ok THEN [label |-> NOLABEL, days |-> 1]
  ELSE CASE classification.content = Scam -> [label |-> "potential-scam", days |-> 7]
         [] classification.content = ShillingCrypto -> [label |-> "shilling-crypto", days |-> 7]
         [] classification.content = FomoInducer -> [label |-> "fomo-inducer", days |-> 0]
         [] classification.content = Potential -> [label |-> "potential-scam", days |-> 0]
         [] classification.content = BotActivity -> [label |-> "bot-activity", days |-> 7]
         [] OTHER -> [label |-> NOLABEL, days |-> 1]

\* switch (classification): the label to apply and the days of the ignore
\* entry to add (0: no entry is added)
SwitchClassification(classification) ==
  IF ~classification.ok THEN [label |-> NOLABEL, days |-> 1]
  ELSE CASE classification.content = Scam -> [label |-> "potential-scam", days |-> 7]
         [] classification.content = ShillingCrypto -> [label |-> "shilling-crypto", days |-> 7]
         [] classification.content = FomoInducer -> [label |-> "fomo-inducer", days |-> 0]
         [] classification.content = Potential -> [label |-> "potential-scam", days |-> 0]
         [] classification.content = BotActivity -> [label |-> "bot-activity", days |-> 30]
         [] OTHER -> [label |-> NOLABEL, days |-> 1]

\* ------------------------------------------------------------------------
\* didResolver and database
\* ------------------------------------------------------------------------
\* the accounts whose DID document resolves and lists a handle; the
\* resolution of every other argument fails or finds no alsoKnownAs entry
Resolvable == {"did:a", "did:c"}

\* doc.alsoKnownAs[0].replace('at://', '@') for the resolvable accounts
HandleOf(did) ==
  CASE did = "did:a" -> "@a"
    [] did = "did:c" -> "@c"

\* resolveDidToHandle: the handle of the document, or the argument itself
ResolveDidToHandle(did) == IF did \in Resolvable THEN HandleOf(did) ELSE did

\* addHandleToIgnoreList: Date.now() + periodDays * 24 * 60 * 60 * 1000
ExpirationTime(t, periodDays) == PlusDays(t, periodDays)

\* isHandleIgnored: Date.now() > expiration_time
RowExpired(t, expiration_time) == After(t, expiration_time)

\* ------------------------------------------------------------------------
\* processScamMessage: one call per event, suspended at each await
\* ------------------------------------------------------------------------
\* text.slice(0, 100)
ShortTextLen == 100
ShortText(text) ==
  SubSeq(text, 1, IF Len(text) < ShortTextLen THEN Len(text) ELSE ShortTextLen)

FreeTask ==
  [pc |-> "free", did |-> "", text |-> <<>>, path |-> "", cid |-> NULL,
   scamTerm |-> <<>>, handle |-> "",
   classification |-> [ok |-> FALSE, content |-> <<>>],
   label |-> NOLABEL, days |-> 0, expirationTime |-> Time(0, 0), outcome |-> "",
   calls |-> <<>>]

\* the message handler does not wait for the call of the previous event: two
\* calls can be in flight at a time
TaskIds == {1, 2}

\* the call has returned or thrown
Ended(task, outcome) == [task EXCEPT !.pc = "done", !.outcome = outcome]

\* `at://${repoDid}/${path}`
PostUri(did, path) == <<did, path>>

\* evaluateWithOpenAI(text.slice(0, 100)) is called
CallClassifier(task) ==
  [task EXCEPT !.calls = Append(@, [op |-> "classify", text |-> ShortText(task.text)]),
               !.pc = "awaitClassify"]

\* addHandleToIgnoreList(handle, periodDays) up to its await db.run(INSERT ...)
CallAddHandleToIgnoreList(task, periodDays, t) ==
  [task EXCEPT !.expirationTime = ExpirationTime(t, periodDays),
               !.calls = Append(@, [op |-> "dbAdd", handle |-> task.handle,
                                    days |-> periodDays, at |-> t,
                                    expirationTime |-> ExpirationTime(t, periodDays)]),
               !.pc = "awaitDbAdd"]

\* bot.label({ reference, labels: [labelName], comment })
CallBotLabel(task, reference) ==
  [task EXCEPT !.calls = Append(@, [op |-> "label", reference |-> reference,
                                    label |-> task.label]),
               !.pc = "awaitLabel"]

\* applyLabel: reference: cid ? { uri, cid } : { did: await resolveDidToHandle(handle) }
ApplyLabel(task) ==
  IF task.cid # NULL
  THEN CallBotLabel(task, [uri |-> PostUri(task.did, task.path), cid |-> task.cid])
  ELSE [task EXCEPT !.calls = Append(@, [op |-> "resolve", did |-> task.handle]),
                    !.pc = "awaitResolveRef"]

\* the ignore entry is left out when the label attempt failed
AfterApplyLabel_SkipOnFailure(task, t) ==
  IF task.days > 0 /\ task.calls[Len(task.calls)].op # "error"
  THEN CallAddHandleToIgnoreList(task, task.days, t)
  ELSE Ended(task, "handled")

\* the statement after await applyLabel(...) in the case of the switch
AfterApplyLabel(task, t) ==
  IF task.days > 0 THEN CallAddHandleToIgnoreList(task, task.days, t)
  ELSE Ended(task, "handled")

\* handleScamClassification up to its first await
HandleScamClassification(task, classification, t) ==
  LET policy == SwitchClassification(classification)
      task1 == [task EXCEPT !.classification = classification,
                            !.label = policy.label, !.days = policy.days]
  IN IF policy.label # NOLABEL THEN ApplyLabel(task1)
     ELSE AfterApplyLabel(task1, t)

\* processScamMessage up to its first await: what it reads and writes
TaskIntake(i, ev) ==
  /\ tasks[i].pc = "free"
  /\ LET scamTerm == FindScamTerm(ev.text, scamRegex)
         task == [FreeTask EXCEPT !.did = ev.did, !.text = ev.text,
                                  !.path = ev.path, !.cid = ev.cid]
     IN tasks' = [tasks EXCEPT ![i] =
          IF NoScamTerm(scamTerm) THEN Ended(task, "no-term")
          ELSE [task EXCEPT !.scamTerm = scamTerm.term,
                            !.calls = <<[op |-> "resolve", did |-> ev.did]>>,
                            !.pc = "awaitResolve"]]

\* processScamMessage(repoDid, text, path, cid, bot) up to its first await
ProcessScamMessage(i, ev) ==
  /\ TaskIntake(i, ev)
  /\ UNCHANGED <<handleIgnore, allScamTerms, scamRegex, updating, db, now, ticks>>
  /\ UNCHANGED aggState

\* an event of the upstream is handed to processScamMessage; the call takes
\* the first free slot
DispatchEvent ==
  /\ dispatched < MaxEvents
  /\ dispatched' = dispatched + 1
  /\ \E i \in TaskIds :
       /\ \A j \in 1..(i - 1) : tasks[j].pc # "free"
       /\ \E ev \in upstream : ProcessScamMessage(i, ev)

\* the static list is not consulted
InStaticIgnoreList_Skipped(list, handle) == FALSE

\* getIgnoreArray().includes(handle)
InStaticIgnoreList(list, handle) == handle \in list

\* resolveDidToHandle(repoDid) returns; the static list is consulted and the
\* durable lookup starts
HandleResolved ==
  \E i \in TaskIds :
    /\ tasks[i].pc = "awaitResolve"
    /\ LET handle == ResolveDidToHandle(tasks[i].did)
           task == [tasks[i] EXCEPT !.handle = handle]
       IN tasks' = [tasks EXCEPT ![i] =
            IF InStaticIgnoreList(handleIgnore, handle) THEN Ended(task, "static")
            ELSE [task EXCEPT !.calls = Append(@, [op |-> "dbGet", handle |-> handle]),
                              !.pc = "awaitDbGet"]]
    /\ UNCHANGED <<handleIgnore, allScamTerms, scamRegex, updating, db, dispatched, now, ticks>>
    /\ UNCHANGED aggState

\* didResolver.resolve(repoDid) throws for this call: resolveDidToHandle logs
\* and returns its argument, and processScamMessage goes on with it
HandleResolveFails ==
  \E i \in TaskIds :
    /\ tasks[i].pc = "awaitResolve"
    /\ LET handle == tasks[i].did
           task == [tasks[i] EXCEPT !.handle = handle]
       IN tasks' = [tasks EXCEPT ![i] =
            IF InStaticIgnoreList(handleIgnore, handle) THEN Ended(task, "static")
            ELSE [task EXCEPT !.calls = Append(@, [op |-> "dbGet", handle |-> handle]),
                              !.pc = "awaitDbGet"]]
    /\ UNCHANGED <<handleIgnore, allScamTerms, scamRegex, updating, db, dispatched, now, ticks>>
    /\ UNCHANGED aggState

\* isHandleIgnored: db.get(SELECT ...) returns a row or nothing, or rejects
DbGetSettles(ok) ==
  \E i \in TaskIds :
    /\ tasks[i].pc = "awaitDbGet"
    /\ LET task == tasks[i]
       IN tasks' = [tasks EXCEPT ![i] =
            IF ~ok THEN Ended(task, "thrown")
            ELSE IF ~MapHas(db, task.handle) THEN CallClassifier(task)
            ELSE IF RowExpired(now, db[task.handle])
                 THEN [task EXCEPT !.calls = Append(@, [op |-> "dbDelete",
                                                        handle |-> task.handle]),
                                   !.pc = "awaitDbDelete"]
                 ELSE Ended(task, "db-timer")]
    /\ UNCHANGED <<handleIgnore, allScamTerms, scamRegex, updating, db, dispatched, now, ticks>>
    /\ UNCHANGED aggState

DbGetReturns == DbGetSettles(TRUE)
DbGetRejects == DbGetSettles(FALSE)

\* isHandleIgnored: db.run(DELETE ...) has removed the row, or rejects
DbDeleteSettles(ok) ==
  \E i \in TaskIds :
    /\ tasks[i].pc = "awaitDbDelete"
    /\ IF ok
       THEN /\ db' = MapDelete(db, tasks[i].handle)
            /\ tasks' = [tasks EXCEPT ![i] = CallClassifier(tasks[i])]
       ELSE /\ db' = db
            /\ tasks' = [tasks EXCEPT ![i] = Ended(tasks[i], "thrown")]
    /\ UNCHANGED <<handleIgnore, allScamTerms, scamRegex, updating, dispatched, now, ticks>>
    /\ UNCHANGED aggState

DbDeleteReturns == DbDeleteSettles(TRUE)
DbDeleteRejects == DbDeleteSettles(FALSE)

\* evaluateWithOpenAI returns; handleScamClassification runs to its first await
ClassifierReturns ==
  \E i \in TaskIds :
    /\ tasks[i].pc = "awaitClassify"
    /\ \E response \in ClassifierResponses :
         tasks' = [tasks EXCEPT ![i] =
           HandleScamClassification(tasks[i], EvaluateWithOpenAI(response), now)]
    /\ UNCHANGED <<handleIgnore, allScamTerms, scamRegex, updating, db, dispatched, now, ticks>>
    /\ UNCHANGED aggState

\* applyLabel: resolveDidToHandle(handle) returns and bot.label is called
ReferenceResolved ==
  \E i \in TaskIds :
    /\ tasks[i].pc = "awaitResolveRef"
    /\ tasks' = [tasks EXCEPT ![i] =
         CallBotLabel(tasks[i], [did |-> ResolveDidToHandle(tasks[i].handle)])]
    /\ UNCHANGED <<handleIgnore, allScamTerms, scamRegex, updating, db, dispatched, now, ticks>>
    /\ UNCHANGED aggState

\* applyLabel: bot.label resolves, or rejects and the rejection is logged
BotLabelSettles(ok) ==
  \E i \in TaskIds :
    /\ tasks[i].pc = "awaitLabel"
    /\ LET task == IF ok THEN tasks[i]
                   ELSE [tasks[i] EXCEPT !.calls =
                           Append(@, [op |-> "error", label |-> tasks[i].label])]
       IN tasks' = [tasks EXCEPT ![i] = AfterApplyLabel(task, now)]
    /\ UNCHANGED <<handleIgnore, allScamTerms, scamRegex, updating, db, dispatched, now, ticks>>
    /\ UNCHANGED aggState

BotLabelResolves == BotLabelSettles(TRUE)
BotLabelRejects == BotLabelSettles(FALSE)

\* the row keeps the later of the two expiration times
InsertOrReplace_KeepLater(table, handle, expirationTime) ==
  IF MapHas(table, handle) /\ After(table[handle], expirationTime) THEN table
  ELSE MapSet(table, handle, expirationTime)

\* INSERT OR REPLACE INTO ignore_handles (handle, expiration_time) with
\* handle as the primary key of the table
InsertOrReplace(table, handle, expirationTime) ==
  MapSet(table, handle, expirationTime)

\* addHandleToIgnoreList: db.run(INSERT OR REPLACE ...) has written the row,
\* or rejects
DbAddSettles(ok) ==
  \E i \in TaskIds :
    /\ tasks[i].pc = "awaitDbAdd"
    /\ IF ok
       THEN /\ db' = InsertOrReplace(db, tasks[i].handle, tasks[i].expirationTime)
            /\ tasks' = [tasks EXCEPT ![i] = Ended(tasks[i], "handled")]
       ELSE /\ db' = db
            /\ tasks' = [tasks EXCEPT ![i] = Ended(tasks[i], "thrown")]
    /\ UNCHANGED <<handleIgnore, allScamTerms, scamRegex, updating, dispatched, now, ticks>>
    /\ UNCHANGED aggState

DbAddReturns == DbAddSettles(TRUE)
DbAddRejects == DbAddSettles(FALSE)

\* the promise of an ended call is dropped
TaskEnds ==
  \E i \in TaskIds :
    /\ tasks[i].pc = "done"
    /\ tasks' = [tasks EXCEPT ![i] = FreeTask]
    /\ UNCHANGED <<handleIgnore, allScamTerms, scamRegex, updating, db, dispatched, now, ticks>>
    /\ UNCHANGED aggState

\* the clock advances by one day, or by one day and a millisecond, while a
\* row of the durable tier has not expired
DispatchTick ==
  /\ ticks < MaxTicks
  /\ \E handle \in DOMAIN db : ~RowExpired(now, db[handle])
  /\ \E d \in {Time(1, 0), Time(1, 1)} : now' = Plus(now, d)
  /\ ticks' = ticks + 1
  /\ UNCHANGED dispVars
  /\ UNCHANGED aggState

\* the texts of the dispatcher events
PumpText == <<"o", "u", "r", " ", "P", "u", "m", "p">>
PumpkinText == <<"p", "u", "m", "p", "k", "i", "n">>

Airdrop == <<"a", "i", "r", "d", "r", "o", "p">>
SpacedPump == <<" ", "p", "u", "m", "p">>

PostPath == "app.bsky.feed.post/1"

\* an account whose posts carry a term, with and without a content id, and a
\* post in which the term is only part of a word
PostWithCid ==
  {[did |-> "did:a", text |-> PumpText, path |-> PostPath, cid |-> "cid"],
   [did |-> "did:a", text |-> PumpkinText, path |-> PostPath, cid |-> "cid"]}
PostWithoutCid ==
  {[did |-> "did:a", text |-> PumpText, path |-> PostPath, cid |-> NULL]}
\* an account whose DID document does not resolve
PostOfUnresolvable ==
  {[did |-> "did:b", text |-> PumpText, path |-> PostPath, cid |-> "cid"]}

DispatchScenarios ==
  {[upstream |-> PostWithCid, handleIgnore |-> {}],
   [upstream |-> PostWithoutCid, handleIgnore |-> {}],
   [upstream |-> PostOfUnresolvable, handleIgnore |-> {}],
   [upstream |-> PostWithCid, handleIgnore |-> {"@a"}]}

\* after initializeDatabase, loadIgnoreArray and the first updateScamTerms
InitDispatcher(terms, ignoreArray) ==
  /\ handleIgnore = ignoreArray
  /\ allScamTerms = terms
  /\ scamRegex = CompileScamRegex(terms)
  /\ updating = 0
  /\ db = EmptyMap
  /\ tasks = [i \in TaskIds |-> FreeTask]
  /\ dispatched = 0

InitAggregator ==
  /\ now = Time(0, 0)
  /\ ticks = 0
  /\ messageBuffer = <<>>
  /\ spamTimer = FALSE
  /\ intervals = 0
  /\ isProcessing = FALSE
  /\ postTextMap = <<>>
  /\ cumulativeSpamScores = EmptyMap
  /\ inMemoryIgnoreList = EmptyMap
  /\ run = IdleRun(<<>>)
  /\ trace = <<>>
  /\ dropped = FALSE

Init ==
  /\ \E sc \in Scenarios : env = sc.env /\ upstream = sc.upstream
  /\ InitAggregator
  /\ InitDispatcher(<<>>, {})

Next ==
  \/ ReceivePost
  \/ RedeliverPost
  \/ TimerFires
  \/ LabelResolves
  \/ LabelRejects
  \/ Tick

vars == <<aggVars, dispVars>>

Spec == Init /\ [][Next]_vars

\* the dispatcher alone: the events go to processScamMessage only
InitDispatch ==
  /\ env = EnvUnset
  /\ \E sc \in DispatchScenarios :
       /\ upstream = sc.upstream
       /\ InitDispatcher(<<Airdrop, SpacedPump>>, sc.handleIgnore)
  /\ InitAggregator

NextDispatch ==
  \/ DispatchEvent
  \/ HandleResolved
  \/ DbGetReturns
  \/ DbGetRejects
  \/ DbDeleteReturns
  \/ DbDeleteRejects
  \/ ClassifierReturns
  \/ ReferenceResolved
  \/ BotLabelResolves
  \/ BotLabelRejects
  \/ DbAddReturns
  \/ DbAddRejects
  \/ TaskEnds
  \/ DispatchTick

SpecDispatch == InitDispatch /\ [][NextDispatch]_vars

\* ------------------------------------------------------------------------
\* Reading the trace of a run
\* ------------------------------------------------------------------------
RunEnded == run.pc = "idle" /\ ~isProcessing

\* spam-labeling attempts of one rule for one post
PostLabels(kind, uri) ==
  {i \in 1..Len(trace) : /\ trace[i].op = "label"
                         /\ trace[i].kind = kind
                         /\ trace[i].uri = uri}

\* account-level label attempts for one account
AccountLabels(did) ==
  {i \in 1..Len(trace) : /\ trace[i].op = "label"
                         /\ trace[i].kind = "scam"
                         /\ trace[i].did = did}

\* account-level label attempts made in the evaluation of one group
GroupAccountLabels(did, text) ==
  {i \in AccountLabels(did) : trace[i].text = text}

MultiLogs(text) ==
  {i \in 1..Len(trace) : /\ trace[i].op = "log"
                         /\ trace[i].kind = "multi"
                         /\ trace[i].text = text}

SameLogs(did) ==
  {i \in 1..Len(trace) : /\ trace[i].op = "log"
                         /\ trace[i].kind = "same"
                         /\ trace[i].did = did}

ScamLogs(did) ==
  {i \in 1..Len(trace) : /\ trace[i].op = "log"
                         /\ trace[i].kind = "scam"
                         /\ trace[i].did = did}

GroupDids(g) == {postTextMap[g].didMap[d].did : d \in 1..Len(postTextMap[g].didMap)}

\* the distinct post ids the batch holds for one text and account
SubmittedIds(messages, text, did) ==
  {messages[i].rkey : i \in {j \in 1..Len(messages) :
                               messages[j].text = text /\ messages[j].did = did}}

\* a timer tick that found a non-empty buffer
TimerTookBatch == messageBuffer # <<>> /\ messageBuffer' = <<>>

\* ------------------------------------------------------------------------
\* C1: a run triggered while an earlier run is still Processing returns at
\* once and its batch is dropped: no group, label, score or ignore entry
\* changes, the batch is not kept, and the groups and labels are those of
\* the first batch only.
\* ------------------------------------------------------------------------
C1_SecondRunDropped ==
  /\ [][(isProcessing /\ TimerTookBatch) =>
          UNCHANGED <<isProcessing, postTextMap, cumulativeSpamScores,
                      inMemoryIgnoreList, run, trace>>]_vars
  /\ [](/\ postTextMap = BuildPostTextMap(<<>>, run.messages)
        /\ \A i \in 1..Len(trace) :
             (trace[i].op = "label" /\ trace[i].kind # "scam") =>
               \E j \in 1..Len(run.messages) :
                 trace[i].uri = Uri(run.messages[j].did, run.messages[j].rkey))

C1_Witness ==
  /\ dropped
  /\ RunEnded
  /\ Len(trace) > 0

\* ------------------------------------------------------------------------
\* C3: for every (text, account) pair of the window the occurrence count
\* equals the number of distinct post ids submitted for the pair and the
\* length of the posts list; a re-delivered post id changes nothing.
\* ------------------------------------------------------------------------
C3_CountIsDistinctIds ==
  /\ \A g \in 1..Len(postTextMap) : \A d \in 1..Len(postTextMap[g].didMap) :
       LET ad == postTextMap[g].didMap[d]
       IN /\ ad.count = Cardinality(SubmittedIds(run.messages, postTextMap[g].text, ad.did))
          /\ ad.count = Len(ad.posts)
          /\ ad.postPaths = SubmittedIds(run.messages, postTextMap[g].text, ad.did)
          /\ {ad.posts[k].uri : k \in 1..Len(ad.posts)} =
               {Uri(ad.did, r) : r \in ad.postPaths}
  /\ \A i \in 1..Len(run.messages) :
       (\E j \in 1..(i - 1) : /\ run.messages[j].text = run.messages[i].text
                              /\ run.messages[j].did = run.messages[i].did
                              /\ run.messages[j].rkey = run.messages[i].rkey)
       => BuildPostTextMap(<<>>, SubSeq(run.messages, 1, i)) =
            BuildPostTextMap(<<>>, SubSeq(run.messages, 1, i - 1))

C3_Witness ==
  /\ postTextMap # <<>>
  /\ \E i, j \in 1..Len(run.messages) :
       /\ i < j
       /\ run.messages[i] = run.messages[j]
       /\ ~FewerThanFiveWords(run.messages[i].text)
  /\ \E d \in 1..Len(postTextMap[1].didMap) : postTextMap[1].didMap[d].count >= 2

SetMax(S) == CHOOSE x \in S : \A y \in S : y <= x

\* score before the same-account record at index i was produced
ScoreBeforeLog(did, i) ==
  LET prev == {j \in SameLogs(did) : j < i}
  IN IF prev = {} THEN ScoreOf(run.startScores, did)
     ELSE IF \E k \in ScamLogs(did) : SetMax(prev) < k /\ k < i THEN 0
     ELSE trace[SetMax(prev)].score

PostUpdateScore(did, i) == ScoreBeforeLog(did, i) + trace[i].count

\* score the account is left with when the run has ended
ScoreAfterRun(did) ==
  IF SameLogs(did) = {} THEN ScoreOf(run.startScores, did)
  ELSE IF \E k \in ScamLogs(did) : k > SetMax(SameLogs(did)) THEN 0
  ELSE PostUpdateScore(did, SetMax(SameLogs(did)))

C7_Claim ==
  /\ [](RunEnded => \A did \in DOMAIN cumulativeSpamScores :
                      cumulativeSpamScores[did] <= SCAM_SPAM_THRESHOLD)
  /\ [][(run.pc = "awaitScam" /\ run' # run) =>
          LET did == postTextMap[run.gi].didMap[run.di].did
          IN /\ MapHas(inMemoryIgnoreList', did)
             /\ inMemoryIgnoreList'[did] = Plus(now, Time(7, 0))]_vars

\* ------------------------------------------------------------------------
\* C8 (as claimed): in one run the escalation step fires at most once per
\* account.
\* ------------------------------------------------------------------------
C8_Claim == \A did \in DIDS : Cardinality(AccountLabels(did)) <= 1

\* ------------------------------------------------------------------------
\* C9 (as claimed): with multi-account threshold 3, when 3 accounts each
\* post the text "buy now" in one window, every collected post of the text
\* gets exactly one spam-labeling attempt and exactly one aggregate record
\* names the 3 accounts.
\* ------------------------------------------------------------------------
Posters(messages, text) ==
  {messages[i].did : i \in {j \in 1..Len(messages) : messages[j].text = text}}

BatchTexts(messages) == {messages[i].text : i \in 1..Len(messages)}

SpamLabels(uri) == PostLabels("multi", uri) \cup PostLabels("same", uri)

CollectedPosts(text) ==
  IF TextIndex(postTextMap, text) = 0 THEN {}
  ELSE LET didMap == postTextMap[TextIndex(postTextMap, text)].didMap
       IN UNION {{didMap[d].posts[k] : k \in 1..Len(didMap[d].posts)} :
                   d \in 1..Len(didMap)}

OneAttemptAndOneRecord(text) ==
  /\ \A post \in CollectedPosts(text) : Cardinality(SpamLabels(post.uri)) = 1
  /\ Cardinality(MultiLogs(text)) = 1
  /\ \A i \in MultiLogs(text) :
       {trace[i].dids[x] : x \in 1..Len(trace[i].dids)} = Posters(run.messages, text)

InitCrowd ==
  /\ env = EnvUnset
  /\ upstream = CrowdFeed
  /\ InitAggregator
  /\ InitDispatcher(<<>>, {})

ReceivePostFair == ReceivePostUpTo(MaxFairBuffer)

NextFair ==
  \/ ReceivePostFair
  \/ TimerFires
  \/ LabelResolves
  \/ LabelRejects

FairSpec == InitCrowd /\ [][NextFair]_vars /\ WF_vars(LabelResolves \/ LabelRejects)

CallsOf(task, op) == {k \in 1..Len(task.calls) : task.calls[k].op = op}

\* the call got past both ignore checks
Classified(task) == task.pc = "done" /\ CallsOf(task, "classify") # {}

\* the policy table of the dispatcher: the label of a verdict and the days
\* of its durable ignore entry (0: the ignore cache is left unchanged)
PolicyTable(verdict) ==
  IF ~verdict.ok THEN [label |-> NOLABEL, days |-> 1]
  ELSE IF verdict.content = Scam THEN [label |-> "potential-scam", days |-> 7]
  ELSE IF verdict.content = ShillingCrypto THEN [label |-> "shilling-crypto", days |-> 7]
  ELSE IF verdict.content = BotActivity THEN [label |-> "bot-activity", days |-> 30]
  ELSE IF verdict.content = FomoInducer THEN [label |-> "fomo-inducer", days |-> 0]
  ELSE IF verdict.content = Potential THEN [label |-> "potential-scam", days |-> 0]
  ELSE [label |-> NOLABEL, days |-> 1]

\* ------------------------------------------------------------------------
\* C10: for an event with a matched term whose account is not ignored, the
\* dispatcher calls the classifier exactly once and applies exactly the
\* policy of the returned verdict: one label attempt with the verdict's
\* label (none for benign and for values outside the enumeration), and one
\* durable ignore write for the resolved handle that expires the policy's
\* number of days after the write was requested (none for fomo-inducer and
\* potential); the row a successful write leaves is that entry.
\* ------------------------------------------------------------------------
C10_VerdictPolicy ==
  /\ [](\A i \in TaskIds :
          LET task == tasks[i]
              policy == PolicyTable(task.classification)
          IN Classified(task) =>
               /\ Cardinality(CallsOf(task, "classify")) = 1
               /\ task.outcome \in {"handled", "thrown"}
               /\ Cardinality(CallsOf(task, "label")) =
                    (IF policy.label = NOLABEL THEN 0 ELSE 1)
               /\ \A k \in CallsOf(task, "label") : task.calls[k].label = policy.label
               /\ Cardinality(CallsOf(task, "dbAdd")) =
                    (IF policy.days = 0 THEN 0 ELSE 1)
               /\ \A k \in CallsOf(task, "dbAdd") :
                    /\ task.calls[k].handle = ResolveDidToHandle(task.did)
                    /\ task.calls[k].expirationTime =
                         Plus(task.calls[k].at, Time(policy.days, 0))
                    /\ \A j \in CallsOf(task, "label") : j < k
               /\ \A k \in CallsOf(task, "dbDelete") :
                    \A j \in CallsOf(task, "classify") : k < j
               /\ (task.outcome = "thrown") => policy.days # 0)
  /\ [][\A i \in TaskIds :
          /\ (tasks[i].pc \in {"awaitDbGet", "awaitDbDelete"}
                /\ tasks'[i].pc # tasks[i].pc
                /\ tasks'[i].outcome \notin {"thrown", "db-timer"}
                /\ tasks'[i].pc # "awaitDbDelete")
             => /\ tasks'[i].pc = "awaitClassify"
                /\ Cardinality(CallsOf(tasks'[i], "classify")) = 1
          /\ (tasks[i].pc = "awaitDbAdd" /\ tasks'[i].outcome = "handled")
             => /\ MapHas(db', tasks[i].handle)
                /\ \E k \in CallsOf(tasks[i], "dbAdd") :
                     db'[tasks[i].handle] =
                       Plus(tasks[i].calls[k].at,
                            Time(PolicyTable(tasks[i].classification).days, 0))
          /\ (tasks[i].pc \in {"awaitClassify", "awaitResolveRef", "awaitLabel"}
                /\ tasks'[i].pc # tasks[i].pc
                /\ tasks'[i].pc # "awaitDbAdd")
             => db' = db]_vars

C10_Witness ==
  \E i \in TaskIds :
    /\ Classified(tasks[i])
    /\ tasks[i].outcome = "handled"
    /\ tasks[i].classification.content = BotActivity
    /\ \E k \in CallsOf(tasks[i], "label") :
         /\ tasks[i].calls[k].label = "bot-activity"
         /\ tasks[i].calls[k].reference = [uri |-> PostUri("did:a", PostPath), cid |-> "cid"]
    /\ MapHas(db, "@a")
    /\ db["@a"] = Plus(now, Time(30, 0))

\* ------------------------------------------------------------------------
\* C11: the static list is consulted first and the durable tier second.  A
\* call whose resolved handle is in the static list ends without any durable
\* lookup or delete; a call ended by either source has called no classifier,
\* attempted no label and requested no ignore write, and the step that ends
\* it leaves the durable tier as it was.  A lookup that finds an unexpired
\* row never goes on to the classifier.
\* ------------------------------------------------------------------------
NoCallsOf(task, ops) == \A k \in 1..Len(task.calls) : task.calls[k].op \notin ops

C11_IgnoreSourcesInOrder ==
  /\ [](\A i \in TaskIds :
          LET task == tasks[i]
          IN /\ (task.pc # "free" /\ task.handle \in handleIgnore) =>
                  /\ task.pc = "done"
                  /\ task.outcome = "static"
                  /\ NoCallsOf(task, {"dbGet", "dbDelete", "classify", "label", "dbAdd"})
             /\ (task.pc = "done" /\ task.outcome = "db-timer") =>
                  /\ Cardinality(CallsOf(task, "dbGet")) = 1
                  /\ NoCallsOf(task, {"dbDelete", "classify", "label", "dbAdd"})
             /\ \A k \in CallsOf(task, "dbGet") :
                  /\ k = 2
                  /\ task.calls[1].op = "resolve"
                  /\ task.calls[k].handle \notin handleIgnore)
  /\ [][\A i \in TaskIds :
          /\ (tasks'[i] # tasks[i] /\ tasks'[i].outcome \in {"static", "db-timer"})
             => db' = db
          /\ (tasks[i].pc = "awaitDbGet" /\ tasks'[i].pc # "awaitDbGet"
                /\ MapHas(db, tasks[i].handle)
                /\ ~After(now, db[tasks[i].handle]))
             => /\ tasks'[i].pc = "done"
                /\ tasks'[i].outcome \in {"db-timer", "thrown"}]_vars

C11_Witness ==
  \E i \in TaskIds :
    /\ tasks[i].pc = "done"
    /\ tasks[i].outcome = "static"
    /\ tasks[i].handle = "@a"
    /\ tasks[i].scamTerm # <<>>

\* ------------------------------------------------------------------------
\* C12: a call for an event in whose text the matcher finds no term ends in
\* its first step: it has resolved no identity, looked up or deleted nothing
\* in the durable tier, called no classifier, attempted no label and
\* requested no ignore write, and that step leaves the durable tier, the
\* static list and the matcher as they were.
\* ------------------------------------------------------------------------
C12_NoTermNoWork ==
  /\ [](\A i \in TaskIds :
          LET task == tasks[i]
          IN (task.pc # "free" /\ ~FindScamTerm(task.text, scamRegex).matched) =>
               /\ task.pc = "done"
               /\ task.outcome = "no-term"
               /\ task.calls = <<>>
               /\ task.handle = "")
  /\ [][\A i \in TaskIds :
          (tasks[i].pc = "free" /\ tasks'[i].outcome = "no-term")
            => /\ db' = db
               /\ handleIgnore' = handleIgnore
               /\ scamRegex' = scamRegex]_vars

C12_Witness ==
  \E i \in TaskIds :
    /\ tasks[i].pc = "done"
    /\ tasks[i].outcome = "no-term"
    /\ tasks[i].text = PumpkinText
    /\ \E j \in TaskIds : tasks[j].text = PumpText /\ tasks[j].calls # <<>>

\* ------------------------------------------------------------------------
\* The two ignore tiers side by side: the aggregator with its in-memory
\* tier, or the dispatcher with its durable tier.  The tiers share no state,
\* so a behaviour exercises one of them.
\* ------------------------------------------------------------------------
AggregatorFeed == \A f \in upstream : "repeats" \in DOMAIN f

InitTiers ==
  \/ /\ env = EnvLow
     /\ upstream = TwoTextFeed
     /\ InitAggregator
     /\ InitDispatcher(<<>>, {})
  \/ InitDispatch

NextTiers ==
  \/ AggregatorFeed /\ Next
  \/ ~AggregatorFeed /\ NextDispatch

SpecTiers == InitTiers /\ [][NextTiers]_vars

\* the last call of one kind a task has made
LastCall(task, op) ==
  task.calls[CHOOSE k \in CallsOf(task, op) : \A j \in CallsOf(task, op) : j <= k]

OneMs == Time(0, 1)

C14_AddIsUpsert ==
  [][/\ \A i \in TaskIds :
          (tasks[i].pc = "awaitDbAdd" /\ tasks'[i].outcome = "handled") =>
            LET h == tasks[i].handle
                add == LastCall(tasks[i], "dbAdd")
            IN /\ DOMAIN db' = DOMAIN db \cup {h}
               /\ db'[h] = Plus(add.at, Time(add.days, 0))
               /\ add.handle = h
               /\ \A o \in DOMAIN db \ {h} : db'[o] = db[o]
     /\ (inMemoryIgnoreList' # inMemoryIgnoreList
           /\ DOMAIN inMemoryIgnoreList \subseteq DOMAIN inMemoryIgnoreList') =>
          \E d \in DIDS :
            /\ DOMAIN inMemoryIgnoreList' = DOMAIN inMemoryIgnoreList \cup {d}
            /\ inMemoryIgnoreList'[d] = Plus(now, Time(7, 0))
            /\ \A o \in DOMAIN inMemoryIgnoreList \ {d} :
                 inMemoryIgnoreList'[o] = inMemoryIgnoreList[o]]_vars

\* a one-day entry has replaced a thirty-day entry of the same handle
C14_Witness ==
  \E i, j \in TaskIds :
    /\ tasks[i].outcome = "handled" /\ tasks[i].days = 30
    /\ tasks[j].outcome = "handled" /\ tasks[j].days = 1
    /\ tasks[i].handle = tasks[j].handle
    /\ MapHas(db, tasks[j].handle)
    /\ db[tasks[j].handle] = tasks[j].expirationTime
    /\ After(tasks[i].expirationTime, db[tasks[j].handle])

\* the entries a step appends to the trace (a new run starts a new trace)
NewTraceEntries ==
  IF trace' = trace THEN {}
  ELSE IF run.pc = "idle" THEN 1..Len(trace')
  ELSE (Len(trace) + 1)..Len(trace')

\* the account a label attempt of the trace is about
LabelSubject(entry) == IF entry.kind = "scam" THEN entry.did ELSE entry.uri[1]

\* ------------------------------------------------------------------------
\* C15 (as claimed): while an account has an unexpired entry in the
\* in-memory tier no step of the aggregator attempts a label for the account
\* or its posts, changes its cumulative score or escalates it again.
\* ------------------------------------------------------------------------
C15_Claim ==
  [][\A d \in DOMAIN inMemoryIgnoreList :
       ~Expired(now, inMemoryIgnoreList[d]) =>
         /\ ScoreOf(cumulativeSpamScores', d) = ScoreOf(cumulativeSpamScores, d)
         /\ \A k \in NewTraceEntries :
              trace'[k].op = "label" => LabelSubject(trace'[k]) # d]_vars

\* the calls a step adds to the record of task i
NewCalls(i) == (Len(tasks[i].calls) + 1)..Len(tasks'[i].calls)

\* ------------------------------------------------------------------------
\* C16 (as claimed): while the durable tier holds an unexpired row of a
\* handle, no call of the dispatcher for that handle attempts a label or
\* requests a further ignore write, whatever the interleaving of the calls
\* in flight.
\* ------------------------------------------------------------------------
C16_Claim ==
  [][\A i \in TaskIds :
       LET h == tasks[i].handle
       IN (MapHas(db, h) /\ ~RowExpired(now, db[h])) =>
            \A k \in NewCalls(i) : tasks'[i].calls[k].op \notin {"label", "dbAdd"}]_vars

\* ------------------------------------------------------------------------
\* C17 (as claimed): every failure of an external call is caught where the
\* call is made: no call of processScamMessage ends by rejecting, also when
\* a read, a write or a delete of the durable tier fails.
\* ------------------------------------------------------------------------
C17_Claim == \A i \in TaskIds : tasks[i].outcome # "thrown"

\* ------------------------------------------------------------------------
\* C18 (as claimed): a call whose classifier request failed ends without an
\* error, having attempted no label and requested no ignore write.
\* ------------------------------------------------------------------------
C18_Claim ==
  \A i \in TaskIds :
    (Classified(tasks[i]) /\ ~tasks[i].classification.ok) =>
      /\ tasks[i].outcome = "handled"
      /\ NoCallsOf(tasks[i], {"label", "dbAdd"})

\* ------------------------------------------------------------------------
\* C19: a rejected bot.label call of the dispatcher is logged and the call
\* of processScamMessage goes on: the log record follows the label attempt,
\* the step that logs it does not end the call by throwing, and the ignore
\* write of the verdict is requested next (7 days for scam and
\* shilling-crypto, 30 days for bot-activity, none for fomo-inducer and
\* potential); when that write completes the row of the handle is in the
\* durable tier.
\* ------------------------------------------------------------------------
C19_LabelFailureKeepsPolicy ==
  /\ [](\A i \in TaskIds :
          LET task == tasks[i]
              policy == PolicyTable(task.classification)
          IN \A k \in CallsOf(task, "error") :
               /\ k > 1 /\ task.calls[k - 1].op = "label"
               /\ task.calls[k].label = policy.label
               /\ task.classification.content \in {Scam, ShillingCrypto, BotActivity}
                    => policy.days \in {7, 30}
               /\ IF policy.days > 0
                  THEN /\ k < Len(task.calls)
                       /\ task.calls[k + 1].op = "dbAdd"
                       /\ task.calls[k + 1].days = policy.days
                       /\ task.calls[k + 1].handle = task.handle
                  ELSE /\ k = Len(task.calls)
                       /\ task.outcome = "handled")
  /\ [][\A i \in TaskIds :
          /\ (tasks[i].pc = "awaitLabel" /\ tasks'[i].pc # "awaitLabel")
               => tasks'[i].outcome # "thrown"
          /\ (tasks[i].pc = "awaitDbAdd" /\ CallsOf(tasks[i], "error") # {}
                /\ tasks'[i].outcome = "handled")
               => /\ MapHas(db', tasks[i].handle)
                  /\ db'[tasks[i].handle] = LastCall(tasks[i], "dbAdd").expirationTime]_vars

C19_Witness ==
  \E i \in TaskIds :
    /\ tasks[i].pc = "done"
    /\ tasks[i].outcome = "handled"
    /\ tasks[i].classification.content = ShillingCrypto
    /\ CallsOf(tasks[i], "error") # {}
    /\ MapHas(db, tasks[i].handle)
    /\ db[tasks[i].handle] = Plus(now, Time(7, 0))

\* the posts of an account in the groups that meet the same-account rule
RECURSIVE RepeatedPosts(_, _)
RepeatedPosts(ptm, did) ==
  IF ptm = <<>> THEN 0
  ELSE LET didMap == Head(ptm).didMap
           d == DidIndex(didMap, did)
       IN (IF d # 0 /\ SameAccountRule(didMap[d].count, SAME_ACCOUNT_SPAM_THRESHOLD)
           THEN didMap[d].count ELSE 0)
          + RepeatedPosts(Tail(ptm), did)

\* the records of the same-account rule for one text and one account
SameRecords(text, did) ==
  {i \in 1..Len(trace) : /\ trace[i].op = "log"
                         /\ trace[i].kind = "same"
                         /\ trace[i].text = text
                         /\ trace[i].did = did}

\* rejected spam-labeling attempts of the run
PostLabelErrors ==
  {i \in 1..Len(trace) : /\ trace[i].op = "error"
                         /\ trace[i].kind \in {"awaitMulti", "awaitSame"}}

\* ------------------------------------------------------------------------
\* C20: a rejected spam-labeling attempt does not abort the run.  The step
\* that logs the rejection leaves the run in progress; and in every run that
\* has ended, rejected attempts or not, each post of every group that meets
\* the multiple-accounts rule and each post of every account that meets the
\* same-account rule has its attempt, every such group and account has its
\* record, and the score of an account that was not escalated has grown by
\* the number of its posts in the groups that meet the same-account rule.
\* ------------------------------------------------------------------------
C20_FailedLabelGoesOn ==
  /\ [](RunEnded =>
          /\ \A g \in 1..Len(postTextMap) :
               LET didMap == postTextMap[g].didMap
                   text == postTextMap[g].text
               IN /\ MultipleAccountsRule(Len(didMap), MULTIPLE_ACCOUNT_SPAM_THRESHOLD)
                       => /\ \A post \in CollectedPosts(text) :
                               PostLabels("multi", post.uri) # {}
                          /\ MultiLogs(text) # {}
                  /\ \A a \in 1..Len(didMap) :
                       SameAccountRule(didMap[a].count, SAME_ACCOUNT_SPAM_THRESHOLD)
                       => /\ \A k \in 1..Len(didMap[a].posts) :
                               PostLabels("same", didMap[a].posts[k].uri) # {}
                          /\ SameRecords(text, didMap[a].did) # {}
          /\ \A did \in DIDS :
               AccountLabels(did) = {} =>
                 ScoreOf(cumulativeSpamScores, did) =
                   ScoreOf(run.startScores, did) + RepeatedPosts(postTextMap, did))
  /\ [][(\E k \in NewTraceEntries : trace'[k].op = "error") =>
          /\ run'.pc # "thrown"
          /\ isProcessing' = (run'.pc # "idle")]_vars

C20_Witness ==
  /\ RunEnded
  /\ \E e \in PostLabelErrors :
       /\ trace[e].kind = "awaitSame"
       /\ \E k \in (e + 1)..Len(trace) :
            trace[k].op = "label" /\ trace[k].kind = "same"
  /\ ScoreOf(cumulativeSpamScores, "did:a") >= DefaultSameAccount

\* ------------------------------------------------------------------------
\* C21 (as claimed): a label call of the dispatcher refers to the post (uri
\* and cid) when the event has a cid, and otherwise to the account by the
\* DID of the event's author.
\* ------------------------------------------------------------------------
C21_Claim ==
  \A i \in TaskIds :
    \A k \in CallsOf(tasks[i], "label") :
      tasks[i].calls[k].reference =
        (IF tasks[i].cid # NULL
         THEN [uri |-> PostUri(tasks[i].did, tasks[i].path), cid |-> tasks[i].cid]
         ELSE [did |-> tasks[i].did])

\* ------------------------------------------------------------------------
\* The aggregator of the Jetstream entry point with a disconnecting upstream
\* ------------------------------------------------------------------------
\* subscription.on('close'): the handler logs the disconnection; the
\* upstream delivers nothing afterwards
Close ==
  /\ upstream # {}
  /\ upstream' = {}
  /\ UNCHANGED <<env, now, ticks, messageBuffer, spamTimer, intervals, isProcessing,
                 postTextMap, cumulativeSpamScores, inMemoryIgnoreList, run,
                 trace, dropped>>
  /\ UNCHANGED dispVars

Closed == upstream = {}

NextClosing ==
  \/ ReceivePost
  \/ ~Closed /\ RedeliverPost
  \/ TimerFires
  \/ LabelResolves
  \/ LabelRejects
  \/ Close

SpecClosing == Init /\ [][NextClosing]_vars

\* ------------------------------------------------------------------------
\* C22 (as claimed): after the upstream has disconnected the timer no
\* longer fires: no run starts and the events left in the buffer are not
\* taken for processing.
\* ------------------------------------------------------------------------
C22_Claim ==
  [][Closed => /\ ~(run.pc = "idle" /\ run'.pc # "idle")
               /\ ~(~isProcessing /\ isProcessing')
               /\ messageBuffer' = messageBuffer]_vars

\* label calls a step starts
NewLabelCalls == {k \in NewTraceEntries : trace'[k].op = "label"}

LabelCalls == {k \in 1..Len(trace) : trace[k].op = "label"}

\* ------------------------------------------------------------------------
\* C23: the label calls of a run are issued one after the other.  A step
\* starts at most one label call; the call it starts is the last thing the
\* step does and leaves the run suspended on it; while a call is
\* outstanding the run is suspended on the last entry of its trace, and the
\* next call is started only by the step in which the outstanding one
\* settles (the trace grows, the run is not replaced by another).
\* ------------------------------------------------------------------------
C23_OneLabelCallAtATime ==
  /\ [](/\ run.pc \in AwaitPcs => trace # <<>> /\ trace[Len(trace)].op = "label"
        /\ isProcessing <=> run.pc # "idle")
  /\ [][/\ Cardinality(NewLabelCalls) <= 1
        /\ NewLabelCalls # {} =>
             /\ NewLabelCalls = {Len(trace')}
             /\ run'.pc \in AwaitPcs
        /\ (run.pc \in AwaitPcs /\ trace' # trace) =>
             /\ Len(trace') > Len(trace)
             /\ SubSeq(trace', 1, Len(trace)) = trace
             /\ run'.messages = run.messages]_vars

C23_Witness ==
  /\ run.pc \in AwaitPcs
  /\ Cardinality(LabelCalls) >= 3
  /\ \E k \in 1..Len(trace) : trace[k].op = "error"

\* ------------------------------------------------------------------------
\* A window that mixes short and long texts of one account
\* ------------------------------------------------------------------------
\* five words separated by blanks, a tab and a line break, with blanks
\* around them
PaddedFive == <<" ", "a", "\t", "b", " ", " ", "c", " ", "d", "\n", "e", " ">>
\* four words followed by two blanks
FourWords == <<"a", " ", "b", " ", "c", " ", "d", " ", " ">>

MixedFeed ==
  {[did |-> "did:a", text |-> PaddedFive, cid |-> "cid", repeats |-> TRUE],
   [did |-> "did:a", text |-> FourWords, cid |-> "cid", repeats |-> TRUE],
   [did |-> "did:b", text |-> FourWords, cid |-> NULL, repeats |-> FALSE]}

InitMixed ==
  /\ env = EnvUnset
  /\ upstream = MixedFeed
  /\ InitAggregator
  /\ InitDispatcher(<<>>, {})

SpecMixed == InitMixed /\ [][Next]_vars

\* the whitespace-delimited words of a text: its maximal runs of other
\* characters
WordCount(text) ==
  Cardinality({i \in 1..Len(text) : ~IsWs(text[i]) /\ (i = 1 \/ IsWs(text[i - 1]))})

ShortEvent(message) == WordCount(message.text) < 5

\* the batch of the latest run
Batch == {run.messages[k] : k \in 1..Len(run.messages)}

\* ------------------------------------------------------------------------
\* C24: an event of fewer than 5 whitespace-delimited words is left out in
\* the build phase and an event of 5 or more words is always grouped.  No
\* group has a short text; every long event of the batch is in the group of
\* its text under its account and post id, and the count of an account in a
\* group is the number of its distinct long posts of that text; no label
\* attempt is for a short event, and an account with short events only has
\* no label, an unchanged score and no new ignore entry.
\* ------------------------------------------------------------------------
C24_ShortTextsDiscarded ==
  /\ [](/\ \A g \in 1..Len(postTextMap) :
             /\ WordCount(postTextMap[g].text) >= 5
             /\ \A a \in 1..Len(postTextMap[g].didMap) :
                  LET ad == postTextMap[g].didMap[a]
                  IN /\ ad.count = Cardinality(ad.postPaths)
                     /\ ad.postPaths =
                          {m.rkey : m \in {x \in Batch : /\ x.did = ad.did
                                                         /\ x.text = postTextMap[g].text}}
        /\ \A m \in Batch :
             IF ShortEvent(m)
             THEN /\ TextIndex(postTextMap, m.text) = 0
                  /\ SpamLabels(Uri(m.did, m.rkey)) = {}
             ELSE LET g == TextIndex(postTextMap, m.text)
                  IN /\ g # 0
                     /\ DidIndex(postTextMap[g].didMap, m.did) # 0
                     /\ m.rkey \in
                          postTextMap[g].didMap[DidIndex(postTextMap[g].didMap, m.did)].postPaths
        /\ \A did \in DIDS :
             (\A m \in Batch : m.did = did => ShortEvent(m)) =>
               /\ AccountLabels(did) = {}
               /\ ScoreOf(cumulativeSpamScores, did) = ScoreOf(run.startScores, did))
  /\ [][\A did \in DIDS :
          (\A m \in {run'.messages[k] : k \in 1..Len(run'.messages)} :
             m.did = did => ShortEvent(m))
          => (MapHas(inMemoryIgnoreList', did) => MapHas(inMemoryIgnoreList, did))]_vars

C24_Witness ==
  /\ RunEnded
  /\ \E m \in Batch : m.did = "did:a" /\ m.text = FourWords
  /\ Cardinality({m \in Batch : m.text = PaddedFive}) = 3
  /\ Len(postTextMap) = 1
  /\ postTextMap[1].didMap[1].count = 3
  /\ ScoreOf(cumulativeSpamScores, "did:a") = 3

\* the distinct posts of one text by one account in the batch of the run
BatchPosts(did, text) == {m.rkey : m \in {x \in Batch : x.did = did /\ x.text = text}}

\* ------------------------------------------------------------------------
\* C25: the groups are rebuilt from nothing in every run.  The step that
\* starts a run sets the groups to those of its own batch; every group is
\* of a text of the batch, every account entry counts the posts of the
\* batch only, and a post is labeled by the same-account rule only when its
\* account reaches the threshold with the posts of this batch.  The score at
\* the start of the run is the one the earlier runs left.
\* ------------------------------------------------------------------------
C25_GroupsDoNotCarryOver ==
  /\ [](/\ \A g \in 1..Len(postTextMap) :
             /\ postTextMap[g].text \in BatchTexts(run.messages)
             /\ \A a \in 1..Len(postTextMap[g].didMap) :
                  postTextMap[g].didMap[a].count =
                    Cardinality(BatchPosts(postTextMap[g].didMap[a].did,
                                           postTextMap[g].text))
        /\ \A m \in Batch :
             PostLabels("same", Uri(m.did, m.rkey)) # {} =>
               Cardinality(BatchPosts(m.did, m.text)) >= SAME_ACCOUNT_SPAM_THRESHOLD)
  /\ [][(~isProcessing /\ spamTimer /\ messageBuffer' = <<>> /\ run' # run) =>
          /\ postTextMap' = BuildPostTextMap(<<>>, messageBuffer)
          /\ run'.messages = messageBuffer
          /\ run'.startScores = cumulativeSpamScores]_vars

\* three posts of a text in one window, two more in the next: the second
\* window labels nothing and the score stays at three
C25_Witness ==
  /\ RunEnded
  /\ ScoreOf(run.startScores, "did:a") = 3
  /\ Cardinality(BatchPosts("did:a", PaddedFive)) = 2
  /\ Len(postTextMap) = 1
  /\ postTextMap[1].didMap[1].count = 2
  /\ trace = <<>>
  /\ ScoreOf(cumulativeSpamScores, "did:a") = 3

\* ------------------------------------------------------------------------
\* Both paths on the same events: the message handler hands every post to
\* processScamMessage and to bufferAndProcessSpam
\* ------------------------------------------------------------------------
PumpFive == <<"p", "u", "m", "p", " ", "a", " ", "b", " ", "c", " ", "d">>

JointFeed ==
  {[did |-> "did:a", text |-> PumpFive, path |-> PostPath, cid |-> "cid"]}

InitJoint ==
  /\ env = EnvLow
  /\ upstream = JointFeed
  /\ InitAggregator
  /\ \E ignoreArray \in {{}, {"@a"}} :
       InitDispatcher(<<Airdrop, SpacedPump>>, ignoreArray)

\* subscription.on('message'): Promise.all([processScamMessage(...),
\* bufferAndProcessSpam(...)]); both calls run to their first await
OnMessage ==
  /\ dispatched < MaxEvents
  /\ dispatched' = dispatched + 1
  /\ \E ev \in upstream :
       /\ \E i \in TaskIds :
            /\ \A j \in 1..(i - 1) : tasks[j].pc # "free"
            /\ TaskIntake(i, ev)
       /\ BufferIntake([did |-> ev.did, text |-> ev.text, cid |-> ev.cid,
                        rkey |-> dispatched + 1])
  /\ UNCHANGED <<env, upstream, now, ticks, isProcessing, postTextMap,
                 cumulativeSpamScores, run, trace, dropped>>
  /\ UNCHANGED <<handleIgnore, allScamTerms, scamRegex, updating, db>>

NextJoint ==
  \/ OnMessage
  \/ TimerFires
  \/ LabelResolves
  \/ HandleResolved
  \/ DbGetReturns
  \/ ClassifierReturns
  \/ BotLabelResolves
  \/ DbAddReturns
  \/ TaskEnds

SpecJoint == InitJoint /\ [][NextJoint]_vars

\* what the aggregator keeps, apart from its intake
runState ==
  <<isProcessing, postTextMap, cumulativeSpamScores, run, trace, dropped>>

\* the task a step starts
Started(i) == tasks[i].pc = "free" /\ tasks'[i].pc # "free"

\* ------------------------------------------------------------------------
\* C26: the two paths do not read or write each other's state.  A step of
\* the dispatcher after the hand-over leaves the buffer, the timer, the
\* groups, the scores, the run and the in-memory tier as they were; a step
\* of the aggregator leaves the tasks, the durable tier, the static list
\* and the matcher as they were.  At the hand-over an event is buffered
\* exactly when its account has no unexpired in-memory entry, whatever the
\* durable tier and the static list hold, and its dispatcher call starts
\* with the outcome of the matcher alone, whatever the in-memory tier
\* holds; the two effects are on disjoint state, so their order does not
\* matter.
\* ------------------------------------------------------------------------
C26_PathsIndependent ==
  [][/\ (dispatched' = dispatched /\ <<tasks, db>>' # <<tasks, db>>) =>
          /\ UNCHANGED <<messageBuffer, spamTimer, intervals, inMemoryIgnoreList>>
          /\ UNCHANGED runState
     /\ (runState' # runState \/ (dispatched' = dispatched
                                     /\ inMemoryIgnoreList' # inMemoryIgnoreList)) =>
          UNCHANGED dispVars
     /\ UNCHANGED <<handleIgnore, allScamTerms, scamRegex, updating>>
     /\ (dispatched' # dispatched) =>
          /\ UNCHANGED <<db, runState>>
          /\ \E i \in TaskIds :
               /\ Started(i)
               /\ \A j \in TaskIds \ {i} : tasks'[j] = tasks[j]
               /\ tasks'[i].pc =
                    (IF FindScamTerm(tasks'[i].text, scamRegex).matched
                     THEN "awaitResolve" ELSE "done")
               /\ LET did == tasks'[i].did
                      ignored == /\ MapHas(inMemoryIgnoreList, did)
                                 /\ ~After(now, inMemoryIgnoreList[did])
                  IN /\ ignored <=> messageBuffer' = messageBuffer
                     /\ ~ignored =>
                          /\ Len(messageBuffer') = Len(messageBuffer) + 1
                          /\ messageBuffer'[Len(messageBuffer')].did = did
                          /\ messageBuffer'[Len(messageBuffer')].text = tasks'[i].text]_vars

\* the second post of an account is in the buffer although the durable
\* tier holds a row of the account, and its dispatcher call was ended by
\* that row
C26_Witness ==
  /\ MapHas(db, "@a")
  /\ Len(messageBuffer) = 2
  /\ messageBuffer[2].did = "did:a"
  /\ messageBuffer[2].rkey = 2
  /\ \E i \in TaskIds :
       /\ tasks[i].did = "did:a"
       /\ tasks[i].outcome = "db-timer"

\* the handles an account can be known by in the durable tier
Handles == {ResolveDidToHandle(did) : did \in DIDS}

\* two maps agree on every subject but s
SameButFor(s, before, after) ==
  /\ DOMAIN after \ {s} = DOMAIN before \ {s}
  /\ \A o \in DOMAIN before \ {s} : after[o] = before[o]

\* ------------------------------------------------------------------------
\* C27: eviction is lazy and local.  In-memory tier: a lookup of a subject
\* that is absent or unexpired leaves the tier as it is, a lookup of a
\* subject with a lapsed entry removes that entry and no other, and an add
\* changes the entry of its subject and no other; an entry leaves the tier
\* only in the step that looks up its own subject after its expiry, and the
\* passing of time alone removes nothing.  Durable tier: a row leaves only
\* when the DELETE of a lookup of that handle completes, a lookup that
\* finds no row or an unexpired row changes nothing, and a write or a
\* delete for a handle leaves the rows of all other handles alone.
\* ------------------------------------------------------------------------
C27_LazyLocalEviction ==
  /\ [](\A s \in DIDS :
          LET list == inMemoryIgnoreList
              unexpired == MapHas(list, s) /\ ~After(now, list[s])
          IN /\ (~MapHas(list, s) \/ unexpired) => MemIgnoreAfterLookup(list, s, now) = list
             /\ SameButFor(s, list, MemIgnoreAfterLookup(list, s, now))
             /\ SameButFor(s, list, AddHandleToMemoryIgnoreList(list, s, 7, now))
             /\ \A o \in DOMAIN list \ {s} :
                  MemIgnoreAfterLookup(list, s, Plus(list[o], OneMs)) = list)
  /\ [](\A h \in Handles :
          /\ SameButFor(h, db, InsertOrReplace(db, h, ExpirationTime(now, 1)))
          /\ SameButFor(h, db, MapDelete(db, h)))
  /\ [][/\ \A d \in DOMAIN inMemoryIgnoreList \ DOMAIN inMemoryIgnoreList' :
             /\ After(now, inMemoryIgnoreList[d])
             /\ Len(messageBuffer') = Len(messageBuffer) + 1
             /\ messageBuffer'[Len(messageBuffer')].did = d
             /\ SameButFor(d, inMemoryIgnoreList, inMemoryIgnoreList')
        /\ \A h \in DOMAIN db \ DOMAIN db' :
             /\ \E i \in TaskIds : /\ tasks[i].pc = "awaitDbDelete"
                                    /\ tasks[i].handle = h
                                    /\ tasks'[i].pc = "awaitClassify"
             /\ SameButFor(h, db, db')
        /\ (now' # now) => (db' = db /\ inMemoryIgnoreList' = inMemoryIgnoreList)
        /\ \A i \in TaskIds :
             (tasks[i].pc = "awaitDbGet" /\ tasks'[i].pc # "awaitDbGet") => db' = db
        /\ \A i \in TaskIds :
             (tasks[i].pc = "awaitDbAdd" /\ tasks'[i].pc # "awaitDbAdd") =>
               SameButFor(tasks[i].handle, db, db')]_vars

\* a lapsed entry that no lookup has touched is still in the tier
C27_Witness ==
  /\ MapHas(inMemoryIgnoreList, "did:a")
  /\ After(now, inMemoryIgnoreList["did:a"])
  /\ RunEnded


\* ------------------------------------------------------------------------
\* A window with events that lack a property
\* ------------------------------------------------------------------------
\* three events that lack the account id, the post id or the text
MalformedFeed ==
  {[did |-> Undefined, text |-> FiveWords, cid |-> "cid", hasRkey |-> TRUE],
   [did |-> "did:b", text |-> FiveWords, cid |-> "cid", hasRkey |-> FALSE],
   [did |-> "did:c", text |-> UndefinedText, cid |-> "cid", hasRkey |-> TRUE]}

InitMalformed ==
  /\ env = EnvUnset
  /\ upstream = MalformedFeed
  /\ InitAggregator
  /\ InitDispatcher(<<>>, {})

\* an event of the feed is handed to bufferAndProcessSpam as it came
ReceiveEvent ==
  /\ Len(messageBuffer) + Len(run.messages) < MaxBuffer
  /\ \E f \in upstream :
       BufferAndProcessSpam([did |-> f.did, text |-> f.text, cid |-> f.cid,
                             rkey |-> IF f.hasRkey
                                      THEN MaxRkey(messageBuffer) + 1
                                      ELSE UndefinedRkey])

NextMalformed ==
  \/ ReceiveEvent
  \/ TimerFires
  \/ LabelResolves
  \/ LabelRejects

SpecMalformed == InitMalformed /\ [][NextMalformed]_vars

Malformed(message) ==
  \/ message.did = Undefined
  \/ message.rkey = UndefinedRkey
  \/ message.text = UndefinedText

GroupEntries(message) ==
  {<<g, a>> \in (1..Len(postTextMap)) \X (1..MaxBuffer) :
     /\ a <= Len(postTextMap[g].didMap)
     /\ postTextMap[g].text = RecordText(message)
     /\ postTextMap[g].didMap[a].did = message.did
     /\ message.rkey \in postTextMap[g].didMap[a].postPaths}

\* ------------------------------------------------------------------------
\* C28: an event that lacks its text, its account id or its post id is
\* dropped from aggregation: no group entry holds it, no label attempt is
\* made for it and no score is kept under a missing account id.
\* ------------------------------------------------------------------------
C28_Claim ==
  \A m \in Batch :
    Malformed(m) =>
      /\ GroupEntries(m) = {}
      /\ SpamLabels(Uri(m.did, m.rkey)) = {}
      /\ AccountLabels(m.did) = {}
      /\ m.did = Undefined => ~MapHas(cumulativeSpamScores, Undefined)

\* the part of C28 about a missing text
MissingTextDropped ==
  \A m \in Batch :
    m.text = UndefinedText =>
      /\ GroupEntries(m) = {}
      /\ SpamLabels(Uri(m.did, m.rkey)) = {}
      /\ AccountLabels(m.did) = {}
      /\ ~MapHas(cumulativeSpamScores, m.did)

\* ------------------------------------------------------------------------
\* The hourly rebuild of the matcher while posts are dispatched
\* ------------------------------------------------------------------------
MaxUpdates == 2

\* scamTerms.english, .spanish and .portuguese
StaticScamTerms == <<Airdrop>>

\* the names findTrendingCoins may return: none, one name, and a list in
\* which an item has no name
TrendingCoins == {<<>>, <<SpacedPump>>, <<SpacedPump, UndefinedText>>}

\* term.trim() of a term that is not a string throws
TrimThrows(terms) == \E k \in 1..Len(terms) : terms[k] = UndefinedText

\* the alternatives of the new list are added to the pattern in use
RebuildScamRegex_Appended(old, terms) == old \o CompileScamRegex(terms)

\* scamRegex = new RegExp(`\\b(${escapedTerms})\\b`, "i")
RebuildScamRegex(old, terms) == CompileScamRegex(terms)

\* the cron job calls updateScamTerms, which suspends in findTrendingCoins
CronFires ==
  /\ updating < MaxUpdates
  /\ updating' = updating + 1
  /\ UNCHANGED <<handleIgnore, allScamTerms, scamRegex, db, tasks, dispatched,
                 now, ticks>>
  /\ UNCHANGED aggState

\* findTrendingCoins returns and updateScamTerms runs to its end
TrendingReturns ==
  /\ updating > 0
  /\ updating' = updating - 1
  /\ \E trendingCoins \in TrendingCoins :
       LET terms == StaticScamTerms \o trendingCoins
       IN /\ allScamTerms' = terms
          /\ scamRegex' = IF TrimThrows(terms) THEN scamRegex
                          ELSE RebuildScamRegex(scamRegex, terms)
  /\ UNCHANGED <<handleIgnore, db, tasks, dispatched, now, ticks>>
  /\ UNCHANGED aggState

\* findTrendingCoins throws and updateScamTerms rejects at its await
TrendingRejects ==
  /\ updating > 0
  /\ updating' = updating - 1
  /\ UNCHANGED <<handleIgnore, allScamTerms, scamRegex, db, tasks, dispatched,
                 now, ticks>>
  /\ UNCHANGED aggState

\* the first updateScamTerms found no trending name; the account of the
\* posts is on the static ignore list
InitRefresh ==
  /\ env = EnvUnset
  /\ upstream = PostWithCid
  /\ InitDispatcher(StaticScamTerms, {"@a"})
  /\ InitAggregator

NextRefresh ==
  \/ CronFires
  \/ TrendingReturns
  \/ TrendingRejects
  \/ DispatchEvent
  \/ HandleResolved
  \/ TaskEnds

SpecRefresh == InitRefresh /\ [][NextRefresh]_vars

\* the term lists a rebuild can complete with
CompleteLists ==
  {StaticScamTerms \o c : c \in {x \in TrendingCoins : ~TrimThrows(x)}}

\* ------------------------------------------------------------------------
\* C29: rebuilding the matcher is atomic with respect to matching.  In
\* every state, also while updateScamTerms calls are suspended, the pattern
\* is the pattern of one complete term list; a step either leaves it as it
\* was or installs the pattern of the whole list assigned in that step; and
\* a findScamTerm call returns what the pattern of one complete list
\* returns for its text.
\* ------------------------------------------------------------------------
C29_AtomicRebuild ==
  /\ [](\E terms \in CompleteLists : scamRegex = CompileScamRegex(terms))
  /\ [][/\ \/ scamRegex' = scamRegex
            \/ /\ allScamTerms' \in CompleteLists
               /\ scamRegex' = CompileScamRegex(allScamTerms')
               /\ updating' = updating - 1
         /\ \A i \in TaskIds :
              (tasks[i].pc = "free" /\ tasks'[i].pc # "free") =>
                /\ scamRegex' = scamRegex
                /\ \E terms \in CompleteLists :
                     LET r == FindScamTerm(tasks'[i].text, CompileScamRegex(terms))
                     IN /\ scamRegex = CompileScamRegex(terms)
                        /\ IF r.matched
                           THEN tasks'[i].scamTerm = r.term
                           ELSE tasks'[i].outcome = "no-term"]_vars

\* a post was matched under the list with the trending name, a later rebuild
\* installed the list without it, and one more rebuild is suspended
C29_Witness ==
  /\ updating > 0
  /\ scamRegex = CompileScamRegex(StaticScamTerms)
  /\ \E i \in TaskIds :
       /\ tasks[i].pc = "awaitResolve"
       /\ tasks[i].text = PumpText
       /\ tasks[i].scamTerm = <<"p", "u", "m", "p">>

\* ------------------------------------------------------------------------
\* The matcher over bounded term lists and texts
\* ------------------------------------------------------------------------
MaxTermLen == 2
MaxTextLen == 3

TermChars == {"a", "B"}
TextChars == {"a", "A", "b", " ", "_"}

\* non-empty terms of word characters, and lists of one or two of them
Terms == UNION {[1..k -> TermChars] : k \in 1..MaxTermLen}
TermLists == {<<t>> : t \in Terms} \cup {<<t, u>> : <<t, u>> \in Terms \X Terms}
Texts == UNION {[1..k -> TextChars] : k \in 0..MaxTextLen}

Pump == <<"p", "u", "m", "p">>
JoinOurPumpEvent == <<"j", "o", "i", "n", " ", "o", "u", "r", " ", "P", "u", "m", "p", " ", "e", "v", "e", "n", "t">>
PumpkinSpice == <<"p", "u", "m", "p", "k", "i", "n", " ", "s", "p", "i", "c", "e">>

MatchInputs ==
  {[terms |-> l, text |-> t] : <<l, t>> \in TermLists \X Texts}
    \cup {[terms |-> <<Pump, Airdrop>>, text |-> t] :
            t \in {JoinOurPumpEvent, PumpkinSpice}}

\* a term list as the last rebuild left it and one post of an account on
\* the static ignore list
InitMatch ==
  /\ env = EnvUnset
  /\ \E input \in MatchInputs :
       /\ upstream = {[did |-> "did:a", text |-> input.text, path |-> PostPath,
                       cid |-> "cid"]}
       /\ InitDispatcher(input.terms, {"@a"})
  /\ InitAggregator

NextMatch ==
  \/ DispatchEvent
  \/ HandleResolved
  \/ TaskEnds

SpecMatch == InitMatch /\ [][NextMatch]_vars

\* two characters are the same letter, case apart
SameLetter(c, d) ==
  \/ c = d
  \/ \E k \in 1..Len(UpperCase) : {c, d} = {UpperCase[k], LowerCase[k]}

\* the term stands in the text at position p as a whole word: no word
\* character precedes or follows it
WholeWordAt(term, text, p) ==
  /\ p + Len(term) - 1 <= Len(text)
  /\ \A k \in 1..Len(term) : SameLetter(term[k], text[p + k - 1])
  /\ p = 1 \/ ~IsWordChar(text[p - 1])
  /\ p + Len(term) > Len(text) \/ ~IsWordChar(text[p + Len(term)])

OccursAsWord(term, text) == \E p \in 1..Len(text) : WholeWordAt(term, text, p)

\* ------------------------------------------------------------------------
\* C30: for a list of non-empty terms of word characters and a text,
\* findScamTerm returns a term exactly when some term of the list occurs in
\* the text as a whole word, compared without case, and none otherwise; the
\* value it returns is such a term as the lower-cased text spells it.  With
\* the terms pump and airdrop, "join our Pump event" gives pump and
\* "pumpkin spice" gives none.
\* ------------------------------------------------------------------------
C30_WholeWordMatch ==
  \A i \in TaskIds :
    tasks[i].pc # "free" =>
      LET text == tasks[i].text
          found == tasks[i].scamTerm
      IN /\ (found # <<>>) <=>
              \E k \in 1..Len(allScamTerms) : OccursAsWord(allScamTerms[k], text)
         /\ found # <<>> =>
              \E k \in 1..Len(allScamTerms) :
                /\ OccursAsWord(allScamTerms[k], text)
                /\ Len(found) = Len(allScamTerms[k])
                /\ \A c \in 1..Len(found) :
                     /\ SameLetter(found[c], allScamTerms[k][c])
                     /\ \A u \in 1..Len(UpperCase) : found[c] # UpperCase[u]
         /\ text = JoinOurPumpEvent => found = Pump
         /\ text = PumpkinSpice => found = <<>>

C30_Witness ==
  /\ allScamTerms = <<Pump, Airdrop>>
  /\ \E i \in TaskIds :
       /\ tasks[i].text = JoinOurPumpEvent
       /\ tasks[i].scamTerm = Pump
  /\ \E i \in TaskIds :
       /\ tasks[i].text = JoinOurPumpEvent
       /\ tasks[i].pc = "done"

\* ------------------------------------------------------------------------
\* The matcher after a rebuild with no term
\* ------------------------------------------------------------------------
\* the lists of scam_terms.js and the trending names are all empty
InitNoTerms ==
  /\ env = EnvUnset
  /\ \E text \in Texts :
       upstream = {[did |-> "did:a", text |-> text, path |-> PostPath, cid |-> "cid"]}
  /\ InitDispatcher(<<>>, {})
  /\ InitAggregator

NextNoTerms ==
  \/ DispatchEvent
  \/ TaskEnds

SpecNoTerms == InitNoTerms /\ [][NextNoTerms]_vars

\* ------------------------------------------------------------------------
\* C31: after a rebuild with an empty term list findScamTerm returns none
\* (null) for the text of every event, and the dispatcher stops at the fast
\* path.
\* ------------------------------------------------------------------------
C31_Claim ==
  \A i \in TaskIds :
    tasks[i].pc # "free" =>
      /\ ~FindScamTerm(tasks[i].text, scamRegex).matched
      /\ tasks[i].outcome = "no-term"

\* the part of C31 about the dispatcher: every call ends at the fast path
\* and makes no call
NoTermsStopAtFastPath ==
  \A i \in TaskIds :
    tasks[i].pc # "free" =>
      /\ tasks[i].pc = "done"
      /\ tasks[i].outcome = "no-term"
      /\ tasks[i].calls = <<>>

\* ------------------------------------------------------------------------
\* C32: the timer's snapshot-and-clear is atomic with respect to appends.
\* A step that is no timer firing only appends to the buffer and leaves the
\* batch of the run alone, so an event appended during a run waits in the
\* buffer; a timer firing takes the whole buffer as its batch and leaves the
\* buffer empty, so every event is in the batch of the first firing after
\* its append and of no other.
\* ------------------------------------------------------------------------
C32_SnapshotAtomic ==
  [][\/ /\ \/ messageBuffer' = messageBuffer
            \/ /\ Len(messageBuffer') = Len(messageBuffer) + 1
               /\ SubSeq(messageBuffer', 1, Len(messageBuffer)) = messageBuffer
         /\ run'.messages = run.messages
      \/ /\ messageBuffer' = <<>>
         /\ IF isProcessing
            THEN /\ run'.messages = run.messages
                 /\ dropped' = (dropped \/ messageBuffer # <<>>)
            ELSE run'.messages = messageBuffer]_vars

\* a run over a batch of three events is suspended and an event appended
\* since its timer firing waits in the buffer
C32_Witness ==
  /\ isProcessing
  /\ run.pc \in AwaitPcs
  /\ Len(run.messages) = 3
  /\ Len(messageBuffer) = 1

\* the same-account rule fires for an account in the run: the batch has the
\* threshold number of distinct posts of one text of five words or more by it
SameRuleFired(did) ==
  \E m \in Batch :
    /\ m.did = did
    /\ WordCount(m.text) >= 5
    /\ Cardinality(BatchPosts(did, m.text)) >= SAME_ACCOUNT_SPAM_THRESHOLD

\* ------------------------------------------------------------------------
\* C33: a run changes the cumulative score only of the accounts for which
\* the same-account rule fired in it.  During and after a run the score of
\* every other account, in the batch or not, labeled by the cross-account
\* rule or not, is the score it had when the run started; a step outside a
\* run, a timer firing whose batch is dropped and a run over an empty batch
\* change no score.
\* ------------------------------------------------------------------------
C33_ScoreFrame ==
  /\ [](\A did \in DIDS :
          ~SameRuleFired(did) =>
            ScoreOf(cumulativeSpamScores, did) = ScoreOf(run.startScores, did))
  /\ [][/\ (isProcessing /\ messageBuffer # <<>> /\ messageBuffer' = <<>>) =>
             cumulativeSpamScores' = cumulativeSpamScores
        /\ (~isProcessing /\ messageBuffer' # <<>>) =>
             cumulativeSpamScores' = cumulativeSpamScores
        /\ (~isProcessing /\ messageBuffer = <<>>) =>
             cumulativeSpamScores' = cumulativeSpamScores
        /\ ~isProcessing' => run'.startScores \in {run.startScores, cumulativeSpamScores}
        /\ isProcessing => run'.startScores = run.startScores]_vars

\* an account with a score of 3 from an earlier run has one post in a batch
\* that three accounts share: its post was labeled by the cross-account
\* rule and its score is still 3
C33_Witness ==
  /\ RunEnded
  /\ ScoreOf(run.startScores, "did:a") = 3
  /\ ScoreOf(cumulativeSpamScores, "did:a") = 3
  /\ ~SameRuleFired("did:a")
  /\ \E m \in Batch : m.did = "did:a" /\ PostLabels("multi", Uri(m.did, m.rkey)) # {}

\* ------------------------------------------------------------------------
\* A window in which both rules hold for the same posts
\* ------------------------------------------------------------------------
\* two accounts post the same text once each, with the thresholds 1/2/0
SharedTextFeed ==
  {[did |-> "did:a", text |-> FiveWords, cid |-> "cid", repeats |-> FALSE],
   [did |-> "did:b", text |-> FiveWords, cid |-> "cid", repeats |-> FALSE]}

InitBothRules ==
  /\ env = EnvLow
  /\ upstream = SharedTextFeed
  /\ InitAggregator
  /\ InitDispatcher(<<>>, {})

NextBothRules ==
  \/ ReceivePost
  \/ TimerFires
  \/ LabelResolves
  \/ LabelRejects

SpecBothRules == InitBothRules /\ [][NextBothRules]_vars

\* ------------------------------------------------------------------------
\* C34: within a single run no post receives more than one spam-labeling
\* attempt, whichever of the two rules its group and its account satisfy.
\* ------------------------------------------------------------------------
C34_Claim ==
  \A m \in Batch : Cardinality(SpamLabels(Uri(m.did, m.rkey))) <= 1

\* ------------------------------------------------------------------------
\* Concurrent lookups of a handle whose row is about to expire
\* ------------------------------------------------------------------------
\* the database file holds a row of an earlier run of the process that
\* expires at the time of the start
InitRace ==
  /\ env = EnvUnset
  /\ upstream = PostWithCid \cup PostWithoutCid
  /\ handleIgnore = {}
  /\ allScamTerms = <<Airdrop, SpacedPump>>
  /\ scamRegex = CompileScamRegex(allScamTerms)
  /\ updating = 0
  /\ db = MapSet(EmptyMap, "@a", Time(0, 0))
  /\ tasks = [i \in TaskIds |-> FreeTask]
  /\ dispatched = 0
  /\ InitAggregator

SpecRace == InitRace /\ [][NextDispatch]_vars

\* ------------------------------------------------------------------------
\* C35: in the durable tier a lookup never deletes an unexpired entry: in
\* no step, under any interleaving of the lookups and adds of a handle,
\* does a row that has not expired leave the table.
\* ------------------------------------------------------------------------
C35_Claim ==
  [][\A handle \in DOMAIN db :
       ~RowExpired(now, db[handle]) => handle \in DOMAIN db']_vars

\* ------------------------------------------------------------------------
\* The dispatcher with a resolver that fails for some calls
\* ------------------------------------------------------------------------
InitResolve ==
  /\ env = EnvUnset
  /\ upstream = PostWithCid \cup PostWithoutCid
  /\ InitDispatcher(<<Airdrop, SpacedPump>>, {})
  /\ InitAggregator

NextResolve ==
  \/ NextDispatch
  \/ HandleResolveFails

SpecResolve == InitResolve /\ [][NextResolve]_vars

\* the keys the durable tier can hold for an account
AccountKeys(did) == {did, ResolveDidToHandle(did)}

\* ------------------------------------------------------------------------
\* C36: the durable tier uses one stable key per account: the key under
\* which an event of an account is checked is the key of every row recorded
\* for that account, also when identity resolution failed for one of the
\* events.
\* ------------------------------------------------------------------------
C36_Claim ==
  \A i \in TaskIds : \A key \in DOMAIN db :
    (tasks[i].handle # "" /\ key \in AccountKeys(tasks[i].did)) =>
      key = tasks[i].handle

\* ------------------------------------------------------------------------
\* The matcher over term lists that hold an empty or a blank term
\* ------------------------------------------------------------------------
BlankTerms == {<<>>, <<" ">>}

\* a term of word characters before or after an empty or blank one
BlankTermLists ==
  {<<t, b>> : <<t, b>> \in Terms \X BlankTerms}
    \cup {<<b, t>> : <<b, t>> \in BlankTerms \X Terms}

InitBlankTerm ==
  /\ env = EnvUnset
  /\ \E terms \in BlankTermLists : \E text \in Texts :
       /\ upstream = {[did |-> "did:a", text |-> text, path |-> PostPath,
                       cid |-> "cid"]}
       /\ InitDispatcher(terms, {"@a"})
  /\ InitAggregator

SpecBlankTerm == InitBlankTerm /\ [][NextMatch]_vars

NonBlank(term) == \E c \in 1..Len(term) : ~IsWs(term[c])

\* ------------------------------------------------------------------------
\* C37: a term list that holds an empty or whitespace-only term does not
\* disable the matcher: for every text in which a non-empty term of the
\* list occurs as a whole word, findScamTerm returns a non-empty term and
\* the dispatcher goes past the fast path.
\* ------------------------------------------------------------------------
C37_Claim ==
  \A i \in TaskIds :
    (/\ tasks[i].pc # "free"
     /\ \E k \in 1..Len(allScamTerms) :
          /\ NonBlank(allScamTerms[k])
          /\ OccursAsWord(allScamTerms[k], tasks[i].text)) =>
      /\ tasks[i].scamTerm # <<>>
      /\ tasks[i].outcome # "no-term"

\* ------------------------------------------------------------------------
\* C38: at most one aggregation interval timer is ever active.  The number
\* of timers started never exceeds one; the one timer is started in the
\* step that buffers the first event, while no timer is set; no later
\* event, ignored or not, no timer firing and no step of a run starts
\* another, and none is ever stopped.
\* ------------------------------------------------------------------------
C38_OneTimer ==
  /\ [](intervals <= 1 /\ (spamTimer <=> intervals = 1))
  /\ [][intervals' # intervals =>
          /\ ~spamTimer
          /\ intervals = 0
          /\ intervals' = 1
          /\ messageBuffer = <<>>
          /\ Len(messageBuffer') = 1
          /\ run.pc = "idle" /\ run.messages = <<>>]_vars

\* the timer has fired, a run has put did:a on the ignore list and ended,
\* an event was buffered after it: there is still the one timer
C38_Witness ==
  /\ intervals = 1
  /\ RunEnded
  /\ MapHas(inMemoryIgnoreList, "did:a")
  /\ messageBuffer # <<>>
====
